---- MODULE Spec2Model ----
(***************************************************************************)
(* Model of the resume/job parsing-and-matching engine of resume-mcp.      *)
(*                                                                         *)
(* Two scoring paths exist in the repository and both are modelled:        *)
(*   - ResumeMatcher   (src/src/resume_mcp/analyzers/resume_matcher.py),   *)
(*     scores on a 0..100 scale over ResumeData / JobPosting;              *)
(*   - ResumeAnalyzer  (src/src/analyzer.py), scores on a 0..1 scale over  *)
(*     ParsedResume / JobRequirement, and also ranks, filters and runs     *)
(*     batches.                                                            *)
(* Floating-point scores are modelled as exact rationals [n, d].           *)
(***************************************************************************)
EXTENDS Integers, Sequences, FiniteSets, TLC

VARIABLES
    \* ---- ResumeMatcher path (resume_matcher.py) ----
    resumes,          \* stored ResumeData records, indexed 1..NumResumes
    job,              \* the JobPosting the resumes are matched against
    semantic,         \* TF-IDF cosine similarity (x100) per resume, from sklearn
    match_results,    \* per resume: the result of match_resume_to_job, or None
    \* ---- ResumeAnalyzer path (analyzer.py) ----
    parsed_resumes,   \* ParsedResume records, indexed 1..NumResumes
    job_req,          \* the JobRequirement, or None
    resume_scores,    \* per resume: the ResumeScore of score_resume_against_job, or None
    \* ---- ranking and filtering (analyzer.py) ----
    results,          \* the AnalysisResult objects, in the order of the input list
    sorted_results,   \* list returned by sort_resumes_by_relevance, or None
    filtered,         \* the latest calls of filter_resumes_by_criteria
    \* ---- batch analysis (analyzer.py) ----
    file_paths,       \* the (truncated) list of paths of the running batch
    batch_size_limit, \* config.batch_size_limit
    task,             \* per task of the gather: "pending", "running", "returned", "raised"
    permits,          \* free slots of asyncio.Semaphore(5)
    batch,            \* state of analyze_batch_resumes: pc, return value, log line
    \* ---- resume text pipeline (resume_analyzer.py) ----
    text,             \* the resume text, a sequence of lines
    analysis,         \* result of ResumeAnalyzer.analyze on text, or None
    extracted_sections, \* result of _extract_sections on the cleaned text, or None
    now,              \* the clock that datetime.now() reads
    \* ---- tool server and HTTP server (mcp_server.py, server.py) ----
    job_descriptions, \* rows of the job_descriptions table by job id, None when absent
    failing,          \* ids of the resumes whose matching raises
    match_rows,       \* rows of the match_results table
    response,         \* the request last served and what the caller got back
    \* ---- job description pipeline (job_analyzer_fixed.py) ----
    job_text,         \* the job description text
    job_analysis,     \* result of JobAnalyzer.analyze on job_text, or None
    \* ---- generative-model agent (ai_agent.py) ----
    HAS_GOOGLE_AI,    \* whether the google libraries were imported
    agent,            \* the GoogleAIAgent: its config and the attributes it has
    ai_result,        \* the last call of analyze_resume_with_ai and its outcome
    \* ---- file parser (parser.py) ----
    parsed,           \* the ParsedResume of the last parse_file, or None
    \* ---- callers of the storage that run side by side ----
    save_calls        \* per caller of save_resume: where it is, and what it got back

matcherVars  == <<resumes, job, semantic, match_results>>
analyzerVars == <<parsed_resumes, job_req, resume_scores>>
rankVars     == <<results, sorted_results, filtered>>
batchVars    == <<file_paths, batch_size_limit, task, permits, batch>>
textVars     == <<text, analysis, extracted_sections, now>>
serverVars   == <<job_descriptions, failing, match_rows, response, job_text, job_analysis>>
agentVars    == <<HAS_GOOGLE_AI, agent, ai_result>>
otherVars    == <<agentVars, parsed, save_calls>>
vars == <<matcherVars, analyzerVars, rankVars, batchVars, textVars, serverVars, otherVars>>

\* Python's None: for a text, for a record and for a number.  An optional
\* number is kept as <<>> (None) or <<x>>.
None == "None"

NoneRec == [none |-> TRUE]

NoNumber == <<>>

Some(x) == <<x>>

\* an optional list: None, or the list
NoList == <<>>

SomeList(list) == <<list>>

(***************************************************************************)
(* Bounds of the model.                                                    *)
(***************************************************************************)
NumResumes == 2
MaxHalfYears == 8
MaxResults == 3
MaxPaths == 6
MaxLines == 5

MaxTicks == 2
MaxMatchRows == 2

(***************************************************************************)
(* Exact rational arithmetic standing for Python floats.                   *)
(***************************************************************************)
RECURSIVE GCD(_, _)
GCD(a, b) == IF b = 0 THEN a ELSE GCD(b, a % b)

Abs(x) == IF x < 0 THEN -x ELSE x

Rat(n, d) ==
    LET g == GCD(Abs(n), d)
    IN [n |-> n \div g, d |-> d \div g]

R(k) == Rat(k, 1)

RatAdd(a, b) == Rat(a.n * b.d + b.n * a.d, a.d * b.d)

RatMul(a, b) == Rat(a.n * b.n, a.d * b.d)

RatLeq(a, b) == a.n * b.d <= b.n * a.d

RatLt(a, b) == a.n * b.d < b.n * a.d

RatMin(a, b) == IF RatLeq(a, b) THEN a ELSE b

RatMax(a, b) == IF RatLeq(a, b) THEN b ELSE a

SeqToSet(s) == {s[i] : i \in 1..Len(s)}

(***************************************************************************)
(* Skill names and str.lower().                                            *)
(***************************************************************************)
Lower(s) ==
    CASE s = "Python" -> "python"
      [] s = "React"  -> "react"
      [] s = "AWS"    -> "aws"
      [] OTHER        -> s

LowerSet(names) == {Lower(s) : s \in names}

(***************************************************************************)
(* ResumeMatcher (resume_matcher.py): scores on the 0..100 scale.          *)
(*                                                                         *)
(* A ResumeData record carries: skills (the names of its Skill entries),   *)
(* total_experience_years (None, or a float with one decimal kept here in  *)
(* tenths of a year), education (the degree strings, in document order),   *)
(* summary (None or a text) and work_experience.                           *)
(* A JobPosting record carries: required_skills (category -> names),       *)
(* preferred_skills, experience_required and education_required (None or   *)
(* a text) and description.                                                *)
(***************************************************************************)
\* self.skill_weights, in tenths; skill_weights.get(category, 1.0)
SkillWeight(category) ==
    CASE category = "programming_languages" -> 15
      [] category = "frameworks_libraries"  -> 13
      [] category = "databases"             -> 12
      [] category = "cloud_devops"          -> 14
      [] category = "data_science"          -> 13
      [] category = "soft_skills"           -> 8
      [] OTHER                              -> 10

\* weight of the preferred skills, in tenths
PreferredWeight == 5

RECURSIVE SumOver(_, _)
SumOver(S, f) ==
    IF S = {} THEN 0
    ELSE LET x == CHOOSE y \in S : TRUE
         IN f[x] + SumOver(S \ {x}, f)

ResumeSkillSet(resume) == LowerSet(resume.skills)

JobSkillSet(j) ==
    UNION {LowerSet(j.required_skills[c]) : c \in DOMAIN j.required_skills}
        \cup LowerSet(j.preferred_skills)

TotalWeight(j) ==
    SumOver(DOMAIN j.required_skills,
            [c \in DOMAIN j.required_skills |->
                Cardinality(LowerSet(j.required_skills[c])) * SkillWeight(c)])
      + Cardinality(LowerSet(j.preferred_skills)) * PreferredWeight

\* variant: matched preferred skills are not counted
MatchedWeightRequiredOnly(resume, j) ==
    SumOver(DOMAIN j.required_skills,
            [c \in DOMAIN j.required_skills |->
                Cardinality(LowerSet(j.required_skills[c]) \cap ResumeSkillSet(resume))
                    * SkillWeight(c)])

MatchedWeight(resume, j) ==
    SumOver(DOMAIN j.required_skills,
            [c \in DOMAIN j.required_skills |->
                Cardinality(LowerSet(j.required_skills[c]) \cap ResumeSkillSet(resume))
                    * SkillWeight(c)])
      + Cardinality(LowerSet(j.preferred_skills) \cap ResumeSkillSet(resume))
            * PreferredWeight

\* the value returned when the job lists no skill at all (total_weight = 0)
NoSkillsScore == 0

SkillsMatchScore(matched_weight, total_weight) ==
    IF total_weight > 0 THEN Rat(matched_weight * 100, total_weight)
    ELSE R(NoSkillsScore)

CalculateSkillsMatch(resume, j) ==
    [score          |-> RatMin(R(100), SkillsMatchScore(MatchedWeight(resume, j), TotalWeight(j))),
     matched_skills |-> ResumeSkillSet(resume) \cap JobSkillSet(j),
     missing_skills |-> JobSkillSet(j) \ ResumeSkillSet(resume)]

\* _extract_experience_years on the requirement texts of the model
ExperienceTexts == {"", "3+ years", "5 years", "2-4 years", "1 year", "senior level"}

ExtractExperienceYears(experience_text) ==
    CASE experience_text = "3+ years"  -> 3
      [] experience_text = "5 years"   -> 5
      [] experience_text = "2-4 years" -> 2
      [] experience_text = "1 year"    -> 1
      [] OTHER                         -> 0

\* `x or ""` for an optional text, `x or 0` for an optional number
OrElse(x, default) == IF x = None THEN default ELSE x

OrZero(x) == IF x = NoNumber THEN 0 ELSE x[1]

\* variant: the shortfall branch scaled to 100 instead of 80
ExperienceScoreScaledTo100(have, need) ==
    IF need = 0 THEN R(100)
    ELSE IF have >= 10 * need
         THEN RatMin(R(100), Rat(800 + (have - 10 * need) * 5, 10))
         ELSE RatMax(R(0), Rat(have * 100, 10 * need))

\* experience score for have (tenths of a year) against need (whole years)
ExperienceScore(have, need) ==
    IF need = 0 THEN R(100)
    ELSE IF have >= 10 * need
         THEN RatMin(R(100), Rat(800 + (have - 10 * need) * 5, 10))
         ELSE RatMax(R(0), Rat(have * 80, 10 * need))

CalculateExperienceMatch(resume, j) ==
    LET total_experience == OrZero(resume.total_experience_years)
        required_years   == ExtractExperienceYears(OrElse(j.experience_required, ""))
    IN [score              |-> ExperienceScore(total_experience, required_years),
        years_experience   |-> total_experience,
        required_years     |-> required_years,
        meets_requirements |-> total_experience >= 10 * required_years]

\* education_hierarchy, in dict order
EducationHierarchy ==
    <<[name |-> "high school", value |-> 1],
      [name |-> "associate",   value |-> 2],
      [name |-> "bachelor",    value |-> 3],
      [name |-> "master",      value |-> 4],
      [name |-> "phd",         value |-> 5],
      [name |-> "doctorate",   value |-> 5]>>

\* for each degree or requirement text of the model, the hierarchy names
\* that occur in text.lower() as substrings
LevelNamesIn(t) ==
    CASE t = "High School"                   -> {"high school"}
      [] t = "associate"                     -> {"associate"}
      [] t = "bachelor"                      -> {"bachelor"}
      [] t = "Bachelor of Science"           -> {"bachelor"}
      [] t = "Master"                        -> {"master"}
      [] t = "PhD"                           -> {"phd"}
      [] t = "Bachelor's or Master's degree" -> {"bachelor", "master"}
      [] OTHER                               -> {}

RECURSIVE MaxOf(_)
MaxOf(S) ==
    IF S = {} THEN 0
    ELSE LET x == CHOOSE y \in S : TRUE
             m == MaxOf(S \ {x})
         IN IF x > m THEN x ELSE m

\* highest hierarchy value over the non-empty degrees of the resume
MaxResumeLevel(education) ==
    MaxOf({EducationHierarchy[k].value :
              k \in {h \in 1..Len(EducationHierarchy) :
                        \E i \in 1..Len(education) :
                            /\ education[i] # ""
                            /\ EducationHierarchy[h].name \in LevelNamesIn(education[i])}})

\* value of the first hierarchy name, in dict order, found in the requirement
RequiredLevelValue(required_level) ==
    LET hits == {h \in 1..Len(EducationHierarchy) :
                    EducationHierarchy[h].name \in LevelNamesIn(required_level)}
    IN IF hits = {} THEN 0
       ELSE EducationHierarchy[CHOOSE h \in hits : \A g \in hits : h <= g].value

\* variant: shortfall scaled to 80 instead of 70
MatcherEducationScoreScaledTo80(max_resume_level, required_level_value) ==
    IF max_resume_level >= required_level_value THEN R(100)
    ELSE IF required_level_value > 0
         THEN Rat(max_resume_level * 80, required_level_value)
         ELSE R(0)

\* education score once both levels are known
MatcherEducationScore(max_resume_level, required_level_value) ==
    IF max_resume_level >= required_level_value THEN R(100)
    ELSE IF required_level_value > 0
         THEN Rat(max_resume_level * 70, required_level_value)
         ELSE R(0)

CalculateEducationMatch(resume, j) ==
    IF j.education_required = None \/ j.education_required = ""
    THEN [score |-> R(100), meets_requirements |-> TRUE, education_level_match |-> TRUE]
    ELSE IF Len(resume.education) = 0
    THEN [score |-> R(0), meets_requirements |-> FALSE, education_level_match |-> FALSE]
    ELSE LET max_resume_level     == MaxResumeLevel(resume.education)
             required_level_value == RequiredLevelValue(j.education_required)
             meets                == max_resume_level >= required_level_value
         IN [score |-> MatcherEducationScore(max_resume_level, required_level_value),
             meets_requirements    |-> meets,
             education_level_match |-> meets]

\* _combine_resume_text(resume) == "" / _combine_job_text(job) == ""
ResumeTextEmpty(resume) ==
    /\ resume.summary = NoList
    /\ \A i \in 1..Len(resume.work_experience) : resume.work_experience[i].description = <<>>
    /\ resume.skills = {}
    /\ \A i \in 1..Len(resume.education) : resume.education[i] = ""

JobTextEmpty(j) ==
    /\ j.description = ""
    /\ \A c \in DOMAIN j.required_skills : j.required_skills[c] = {}
    /\ j.preferred_skills = {}

\* cosine is the value (x100) the TF-IDF vectoriser and cosine_similarity return
CalculateSemanticSimilarity(resume, j, cosine) ==
    IF ResumeTextEmpty(resume) \/ JobTextEmpty(j) THEN R(0) ELSE R(cosine)

\* the weights of _calculate_overall_match, in hundredths
WeightSkills == 40
WeightExperience == 30
WeightEducation == 15
WeightSemantic == 15

\* variant: the weights of Config (0.4 / 0.3 / 0.2 / 0.1)
OverallScoreConfigWeights(skills, experience, education, semantic_score) ==
    RatAdd(RatAdd(RatMul(skills, Rat(40, 100)), RatMul(experience, Rat(30, 100))),
           RatAdd(RatMul(education, Rat(20, 100)), RatMul(semantic_score, Rat(10, 100))))

OverallScore(skills, experience, education, semantic_score) ==
    RatAdd(RatAdd(RatMul(skills, Rat(WeightSkills, 100)),
                  RatMul(experience, Rat(WeightExperience, 100))),
           RatAdd(RatMul(education, Rat(WeightEducation, 100)),
                  RatMul(semantic_score, Rat(WeightSemantic, 100))))

MatchLevel(overall_score) ==
    IF RatLeq(R(85), overall_score) THEN "excellent"
    ELSE IF RatLeq(R(70), overall_score) THEN "good"
    ELSE IF RatLeq(R(55), overall_score) THEN "fair"
    ELSE "poor"

CalculateOverallMatch(skill_match, experience_match, education_match, semantic_score) ==
    LET overall_score == OverallScore(skill_match.score, experience_match.score,
                                      education_match.score, semantic_score)
    IN [score |-> overall_score, match_level |-> MatchLevel(overall_score)]

\* list(missing_skills)[:5]: at most five of the names
FirstFive(names) ==
    IF Cardinality(names) <= 5 THEN names
    ELSE CHOOSE five \in SUBSET names : Cardinality(five) = 5

\* _generate_recommendations.  Each f-string is kept as a record of what it
\* is formatted from: the names joined by ', ', the years still needed as
\* '.1f' prints them (in tenths of a year), the text of the requirement.
GenerateRecommendations(resume, j, score) ==
    LET job_skills ==
            UNION {LowerSet(j.required_skills[c]) : c \in DOMAIN j.required_skills}
                \cup LowerSet(j.preferred_skills)
        resume_skills    == LowerSet(resume.skills)
        missing_skills   == job_skills \ resume_skills
        required_years   == ExtractExperienceYears(OrElse(j.experience_required, ""))
        total_experience == OrZero(resume.total_experience_years)
    IN (IF RatLt(score, R(70)) /\ missing_skills # {}
        THEN <<[consider_developing_skills_in |-> FirstFive(missing_skills)]>> ELSE <<>>)
       \o (IF total_experience < 10 * required_years
           THEN <<[gain_more_years |-> 10 * required_years - total_experience]>> ELSE <<>>)
       \o (IF j.education_required # None /\ j.education_required # ""
                /\ Len(resume.education) = 0
           THEN <<[consider_pursuing |-> j.education_required]>> ELSE <<>>)

MatchResumeToJobResult(resume, j, cosine) ==
    LET skill_match      == CalculateSkillsMatch(resume, j)
        experience_match == CalculateExperienceMatch(resume, j)
        education_match  == CalculateEducationMatch(resume, j)
        semantic_score   == CalculateSemanticSimilarity(resume, j, cosine)
        overall_match    == CalculateOverallMatch(skill_match, experience_match,
                                                  education_match, semantic_score)
    IN [skill_match      |-> skill_match,
        experience_match |-> experience_match,
        education_match  |-> education_match,
        semantic_score   |-> semantic_score,
        overall_match    |-> overall_match,
        recommendations  |-> GenerateRecommendations(resume, j, overall_match.score),
        overall_score    |-> RatMul(overall_match.score, Rat(1, 100))]

\* match_resume_to_job(resumes[i], job)
MatchResumeToJob(i) ==
    /\ resumes[i] # NoneRec
    /\ match_results[i] = NoneRec
    /\ match_results' = [match_results EXCEPT
                            ![i] = MatchResumeToJobResult(resumes[i], job, semantic[i])]
    /\ UNCHANGED serverVars
    /\ UNCHANGED <<resumes, job, semantic, analyzerVars, rankVars, batchVars, textVars, otherVars>>

(***************************************************************************)
(* ResumeAnalyzer (analyzer.py): scores on the 0..1 scale.                 *)
(*                                                                         *)
(* A ParsedResume record carries: skills (names), total_experience_years   *)
(* (tenths of a year) and education (the EducationLevel of each entry).    *)
(* A JobRequirement record carries: required_skills, preferred_skills,     *)
(* required_experience_years (int) and required_education.                 *)
(***************************************************************************)
\* education_levels.get(level, 0)
EducationLevelValue(level) ==
    CASE level = "high_school" -> 1
      [] level = "certificate" -> 2
      [] level = "associate"   -> 3
      [] level = "bachelor"    -> 4
      [] level = "master"      -> 5
      [] level = "doctorate"   -> 6
      [] OTHER                 -> 0

\* return value of _score_experience for have (tenths) against need (years)
AnalyzerExperienceScore(have, need) ==
    IF need = 0 THEN R(1)
    ELSE LET experience_ratio == Rat(have, 10 * need)
         IN IF RatLeq(R(1), experience_ratio)
            THEN RatMin(R(1), RatAdd(Rat(8, 10),
                                     RatMul(RatAdd(experience_ratio, R(-1)), Rat(1, 10))))
            ELSE RatMax(R(0), RatMul(experience_ratio, Rat(8, 10)))

ScoreExperience(resume, req) ==
    AnalyzerExperienceScore(resume.total_experience_years, req.required_experience_years)

HighestLevel(education) ==
    MaxOf({EducationLevelValue(education[i]) : i \in 1..Len(education)})

\* education score once both ordinals are known
AnalyzerEducationScore(highest_level, required_level) ==
    IF highest_level >= required_level
    THEN RatMin(R(1), RatAdd(Rat(8, 10),
                             RatMin(Rat(2, 10), Rat((highest_level - required_level) * 5, 100))))
    ELSE RatMax(R(0), RatAdd(Rat(8, 10), Rat(-((required_level - highest_level) * 2), 10)))

ScoreEducation(resume, req) ==
    IF req.required_education = "other" THEN Rat(8, 10)
    ELSE IF Len(resume.education) = 0 THEN Rat(3, 10)
    ELSE AnalyzerEducationScore(HighestLevel(resume.education),
                                EducationLevelValue(req.required_education))

\* the value returned when the job requires no skill
NeutralSkillsScore == Rat(8, 10)

ScoreSkills(resume, req) ==
    LET resume_skills      == LowerSet(resume.skills)
        required_skills    == LowerSet(req.required_skills)
        preferred_skills   == LowerSet(req.preferred_skills)
        matching_required  == resume_skills \cap required_skills
        missing_required   == required_skills \ resume_skills
        matching_preferred == resume_skills \cap preferred_skills
    IN [score    |-> IF required_skills = {} THEN NeutralSkillsScore
                     ELSE RatMin(R(1),
                            RatAdd(RatMul(Rat(Cardinality(matching_required),
                                              Cardinality(required_skills)), Rat(8, 10)),
                                   Rat(Cardinality(matching_preferred) * 5, 100))),
        matching |-> matching_required \cup matching_preferred,
        missing  |-> missing_required]

\* Config scoring weights, in tenths
ConfigExperienceWeight == 3
ConfigEducationWeight == 2
ConfigSkillsWeight == 4
ConfigAchievementsWeight == 1

ScoreResumeAgainstJobResult(resume, req) ==
    LET exp_score   == ScoreExperience(resume, req)
        edu_score   == ScoreEducation(resume, req)
        skills_data == ScoreSkills(resume, req)
        gap         == 10 * req.required_experience_years - resume.total_experience_years
    IN [experience_score |-> exp_score,
        education_score  |-> edu_score,
        skills_score     |-> skills_data.score,
        matching_skills  |-> skills_data.matching,
        missing_skills   |-> skills_data.missing,
        overall_score    |->
            RatAdd(RatAdd(RatMul(exp_score, Rat(ConfigExperienceWeight, 10)),
                          RatMul(edu_score, Rat(ConfigEducationWeight, 10))),
                   RatAdd(RatMul(skills_data.score, Rat(ConfigSkillsWeight, 10)),
                          RatMul(Rat(5, 10), Rat(ConfigAchievementsWeight, 10)))),
        experience_gap   |-> IF gap > 0 THEN gap ELSE 0]

\* score_resume_against_job(parsed_resumes[i], job_req)
ScoreResumeAgainstJob(i) ==
    /\ job_req # NoneRec
    /\ resume_scores[i] = NoneRec
    /\ resume_scores' = [resume_scores EXCEPT
                            ![i] = ScoreResumeAgainstJobResult(parsed_resumes[i], job_req)]
    /\ UNCHANGED serverVars
    /\ UNCHANGED <<parsed_resumes, job_req, matcherVars, rankVars, batchVars, textVars, otherVars>>

(***************************************************************************)
(* ResumeAnalyzer: ranking and filtering (analyzer.py).                    *)
(* results holds the AnalysisResult objects; the lists the operations      *)
(* return are lists of references to them (indices into results), because  *)
(* sort_resumes_by_relevance writes the ranking into the objects it was    *)
(* given.                                                                  *)
(***************************************************************************)
Returned(list) == [value |-> list]

AllResults == [i \in 1..Len(results) |-> i]

\* key=lambda r: (r.job_match_percentage, r.score.overall_score), tuples
\* compare lexicographically; key=lambda r: r.score.overall_score otherwise
KeyLessOverallOnly(with_job_req, a, b) ==
    RatLt(a.score.overall_score, b.score.overall_score)

KeyLess(with_job_req, a, b) ==
    IF with_job_req
    THEN \/ RatLt(a.job_match_percentage, b.job_match_percentage)
         \/ /\ a.job_match_percentage = b.job_match_percentage
            /\ RatLt(a.score.overall_score, b.score.overall_score)
    ELSE RatLt(a.score.overall_score, b.score.overall_score)

\* sorted(..., reverse=True) on a list whose equal keys are reversed again
SortedReverseTiesReversed(list, with_job_req) ==
    LET n == Len(list)
        Before(j, i) ==
            \/ KeyLess(with_job_req, list[i], list[j])
            \/ /\ ~KeyLess(with_job_req, list[j], list[i])
               /\ j > i
        Place(i) == 1 + Cardinality({j \in 1..n : Before(j, i)})
    IN  [k \in 1..n |-> CHOOSE i \in 1..n : Place(i) = k]

\* sorted(..., reverse=True): descending by key, elements with equal keys
\* keep the order they had in the list.  The value is the list of the
\* positions of the elements in the input.
SortedReverse(list, with_job_req) ==
    LET n == Len(list)
        Before(j, i) ==
            \/ KeyLess(with_job_req, list[i], list[j])
            \/ /\ ~KeyLess(with_job_req, list[j], list[i])
               /\ j < i
        Place(i) == 1 + Cardinality({j \in 1..n : Before(j, i)})
    IN  [k \in 1..n |-> CHOOSE i \in 1..n : Place(i) = k]

IndexIn(list, x) == CHOOSE k \in 1..Len(list) : list[k] = x

\* sort_resumes_by_relevance(results, job_req): sort, then write the
\* ranking into every object, then return the sorted list
SortResumesByRelevance ==
    LET order == SortedReverse(results, job_req # NoneRec)
    IN  /\ sorted_results' = Returned(order)
        /\ results' = [i \in 1..Len(results) |->
                          [results[i] EXCEPT !.ranking = IndexIn(order, i)]]
        /\ UNCHANGED <<serverVars, otherVars>>
        /\ UNCHANGED <<filtered, job_req, parsed_resumes, resume_scores,
                       matcherVars, batchVars, textVars, otherVars>>

\* the four checks of filter_resumes_by_criteria; TRUE means `continue`
BelowMinScoreInclusive(result, min_score) ==
    RatLeq(result.score.overall_score, min_score)

BelowMinScore(result, min_score) ==
    RatLt(result.score.overall_score, min_score)

BelowMinExperience(result, min_experience) ==
    RatLt(result.resume.total_experience_years, min_experience)

LacksRequiredSkills(result, required_skills) ==
    /\ required_skills # NoList
    /\ required_skills[1] # <<>>
    /\ LET resume_skills == LowerSet(SeqToSet(result.resume.skills))
           required_set == LowerSet(SeqToSet(required_skills[1]))
       IN  ~(required_set \subseteq resume_skills)

BelowEducationLevel(result, education_level) ==
    /\ education_level # None
    /\ education_level # "other"
    /\ LET required_level == EducationLevelValue(education_level)
           max_candidate_level ==
               MaxOf({0} \cup {EducationLevelValue(result.resume.education[k]) :
                                   k \in 1..Len(result.resume.education)})
       IN  max_candidate_level < required_level

Passes(result, criteria) ==
    /\ ~BelowMinScore(result, criteria.min_score)
    /\ ~BelowMinExperience(result, criteria.min_experience)
    /\ ~LacksRequiredSkills(result, criteria.required_skills)
    /\ ~BelowEducationLevel(result, criteria.education_level)

\* filtered = [], then the results that pass are appended in list order
FilterResumes(list, criteria) ==
    LET Keep(ref) == Passes(results[ref], criteria)
    IN  SelectSeq(list, Keep)

Criteria(min_score, min_experience, required_skills, education_level) ==
    [min_score |-> min_score, min_experience |-> min_experience,
     required_skills |-> required_skills, education_level |-> education_level]

\* the keyword defaults of filter_resumes_by_criteria
DefaultCriteria == Criteria(R(0), R(0), NoList, None)

FilterCall(list, criteria) ==
    [input |-> list, criteria |-> criteria, output |-> FilterResumes(list, criteria)]

\* filter_resumes_by_criteria called on the analysed batch
FilterResumesByCriteria(criteria) ==
    /\ filtered' = <<FilterCall(AllResults, criteria)>>
    /\ UNCHANGED <<serverVars, otherVars>>
    /\ UNCHANGED <<results, sorted_results, job_req, parsed_resumes, resume_scores,
                   matcherVars, batchVars, textVars, otherVars>>

\* filter_resumes_by_criteria called on the list the previous call returned
FilterResumesAgain(criteria) ==
    /\ filtered # <<>>
    /\ LET previous == filtered[Len(filtered)]
       IN  filtered' = <<previous, FilterCall(previous.output, criteria)>>
    /\ UNCHANGED <<serverVars, otherVars>>
    /\ UNCHANGED <<results, sorted_results, job_req, parsed_resumes, resume_scores,
                   matcherVars, batchVars, textVars, otherVars>>

(***************************************************************************)
(* ResumeAnalyzer.analyze_batch_resumes (analyzer.py): the analyses run as *)
(* asyncio tasks under asyncio.Semaphore(5) and are collected by           *)
(* asyncio.gather(..., return_exceptions=True).                            *)
(***************************************************************************)
DefaultBatchSizeLimit == 50

SemaphoreSlots == 5

\* what a task hands to gather: the AnalysisResult of the file, or the
\* exception analyze_single_resume re-raised
ResultFor(file_path) == [file_path |-> file_path]

ExceptionFor(file_path) == [exception |-> file_path]

IsException(result) == "exception" \in DOMAIN result

TaskOutcome(i) ==
    IF task[i] = "raised" THEN ExceptionFor(file_paths[i]) ELSE ResultFor(file_paths[i])

\* asyncio.gather without return_exceptions: the first exception propagates
GatherFailFast(outcomes) ==
    IF \E i \in 1..Len(outcomes) : IsException(outcomes[i])
    THEN [raised |-> TRUE, results |-> <<>>]
    ELSE [raised |-> FALSE, results |-> outcomes]

\* asyncio.gather with return_exceptions=True: one entry per task, in the
\* order of the tasks, exceptions returned as entries
Gather(outcomes) == [raised |-> FALSE, results |-> outcomes]

\* the loop over enumerate(results): exceptions are logged, the rest appended
ValidResults(gathered) ==
    LET Valid(result) == ~IsException(result)
    IN  SelectSeq(gathered, Valid)

LoggedErrors(gathered) == SelectSeq(gathered, IsException)

\* analyze_batch_resumes up to the gather: truncate the list to the batch
\* size limit, create the semaphore and one task per remaining path
AnalyzeBatchResumes ==
    /\ batch.pc = "called"
    /\ file_paths' = IF Len(file_paths) > batch_size_limit
                     THEN SubSeq(file_paths, 1, batch_size_limit)
                     ELSE file_paths
    /\ permits' = SemaphoreSlots
    /\ task' = [i \in 1..Len(file_paths') |-> "pending"]
    /\ batch' = [pc |-> "gathering"]
    /\ UNCHANGED <<serverVars, otherVars>>
    /\ UNCHANGED <<batch_size_limit, matcherVars, analyzerVars, rankVars, textVars>>

\* a task enters whether or not a slot is free
EnterSemaphoreUnlimited(i) ==
    /\ batch.pc = "gathering"
    /\ task[i] = "pending"
    /\ permits' = permits - 1
    /\ task' = [task EXCEPT ![i] = "running"]
    /\ UNCHANGED <<serverVars, otherVars>>
    /\ UNCHANGED <<file_paths, batch_size_limit, batch,
                   matcherVars, analyzerVars, rankVars, textVars>>

\* async with semaphore: a task enters when a slot is free
EnterSemaphore(i) ==
    /\ batch.pc = "gathering"
    /\ task[i] = "pending"
    /\ permits > 0
    /\ permits' = permits - 1
    /\ task' = [task EXCEPT ![i] = "running"]
    /\ UNCHANGED <<serverVars, otherVars>>
    /\ UNCHANGED <<file_paths, batch_size_limit, batch,
                   matcherVars, analyzerVars, rankVars, textVars>>

\* analyze_single_resume returns; leaving the async with block frees the slot
AnalysisReturns(i) ==
    /\ batch.pc = "gathering"
    /\ task[i] = "running"
    /\ permits' = permits + 1
    /\ task' = [task EXCEPT ![i] = "returned"]
    /\ UNCHANGED <<serverVars, otherVars>>
    /\ UNCHANGED <<file_paths, batch_size_limit, batch,
                   matcherVars, analyzerVars, rankVars, textVars>>

\* variant: a task that raises keeps its slot
AnalysisRaisesKeepsSlot(i) ==
    /\ batch.pc = "gathering"
    /\ task[i] = "running"
    /\ task' = [task EXCEPT ![i] = "raised"]
    /\ UNCHANGED <<serverVars, otherVars>>
    /\ UNCHANGED <<file_paths, batch_size_limit, batch, permits,
                   matcherVars, analyzerVars, rankVars, textVars>>

\* analyze_single_resume raises; leaving the async with block frees the slot
AnalysisRaises(i) ==
    /\ batch.pc = "gathering"
    /\ task[i] = "running"
    /\ permits' = permits + 1
    /\ task' = [task EXCEPT ![i] = "raised"]
    /\ UNCHANGED <<serverVars, otherVars>>
    /\ UNCHANGED <<file_paths, batch_size_limit, batch,
                   matcherVars, analyzerVars, rankVars, textVars>>

\* every task is done: gather hands over the results, the exceptions are
\* filtered out and logged, the summary is logged and the list returned; an
\* exception out of gather is logged and raised again
BatchReturns ==
    /\ batch.pc = "gathering"
    /\ \A i \in 1..Len(task) : task[i] \in {"returned", "raised"}
    /\ LET gathered == Gather([i \in 1..Len(task) |-> TaskOutcome(i)])
       IN  batch' = IF gathered.raised
                    THEN [pc |-> "raised"]
                    ELSE [pc |-> "returned",
                          value |-> ValidResults(gathered.results),
                          errors |-> LoggedErrors(gathered.results),
                          succeeded |-> Len(ValidResults(gathered.results)),
                          total |-> Len(file_paths)]
    /\ UNCHANGED <<serverVars, otherVars>>
    /\ UNCHANGED <<file_paths, batch_size_limit, task, permits,
                   matcherVars, analyzerVars, rankVars, textVars>>

(***************************************************************************)
(* ResumeAnalyzer.analyze (resume_analyzer.py): from resume text to a      *)
(* ResumeData record.  A text is the sequence of its lines; a multi-line   *)
(* string of the code (a section, an entry, a description) is the sequence *)
(* of its lines, "" being <<>>.  What the regular expressions of the code  *)
(* find in a line is tabulated for the lines of LineSamples.               *)
(***************************************************************************)
LineSamples ==
    { "Experience",
      "Skills",
      "Senior Software Engineer at Google (2020-2023)",
      "Built web services with Python",
      "Python, React, AWS",
      "" }

\* len(line.split())
WordCount(line) ==
    CASE line = "Experience" -> 1
      [] line = "Skills" -> 1
      [] line = "Senior Software Engineer at Google (2020-2023)" -> 6
      [] line = "Built web services with Python" -> 5
      [] line = "Python, React, AWS" -> 3
      [] line = "Education" -> 1
      [] line = "foo" -> 1
      [] line = "bar" -> 1
      [] line = "Software Engineer at Acme (2021 - Present)" -> 7
      [] line = "Engineer at Initech (2023-2020)" -> 4
      [] line = "Analyst at Hooli (2019-2023)" -> 4
      [] line = "Engineer at Initech (2019)" -> 4
      [] line = "Built apps with reactjs and golang" -> 6
      [] OTHER -> 0

\* len(line)
CharCount(line) ==
    CASE line = "Experience" -> 10
      [] line = "Skills" -> 6
      [] line = "Senior Software Engineer at Google (2020-2023)" -> 46
      [] line = "Built web services with Python" -> 30
      [] line = "Python, React, AWS" -> 18
      [] line = "Education" -> 9
      [] line = "foo" -> 3
      [] line = "bar" -> 3
      [] line = "Software Engineer at Acme (2021 - Present)" -> 42
      [] line = "Engineer at Initech (2023-2020)" -> 31
      [] line = "Analyst at Hooli (2019-2023)" -> 28
      [] line = "Engineer at Initech (2019)" -> 26
      [] line = "Built apps with reactjs and golang" -> 34
      [] OTHER -> 0

\* the first entry of section_patterns that re.search finds in the line
HeaderPattern(line) ==
    CASE line = "Experience" -> "experience"
      [] line = "Skills" -> "skills"
      [] line = "Education" -> "education"
      [] OTHER -> None

\* ' at ' in line
ContainsAt(line) ==
    line \in {"Senior Software Engineer at Google (2020-2023)",
              "Software Engineer at Acme (2021 - Present)",
              "Engineer at Initech (2023-2020)",
              "Analyst at Hooli (2019-2023)",
              "Engineer at Initech (2019)"}

\* re.search(r'\(\d{4}[-\s]*\d{4}', line)
HasYearRange(line) ==
    line \in {"Senior Software Engineer at Google (2020-2023)",
              "Engineer at Initech (2023-2020)",
              "Analyst at Hooli (2019-2023)"}

\* re.findall of the three date_patterns: dates or years, month names, years
DateOrYearTokens(line) ==
    CASE line = "Senior Software Engineer at Google (2020-2023)" -> <<"2020", "2023">>
      [] line = "Software Engineer at Acme (2021 - Present)" -> <<"2021">>
      [] line = "Engineer at Initech (2023-2020)" -> <<"2023", "2020">>
      [] line = "Analyst at Hooli (2019-2023)" -> <<"2019", "2023">>
      [] line = "Engineer at Initech (2019)" -> <<"2019">>
      [] OTHER -> <<>>

MonthYearTokens(line) == <<>>

YearTokens(line) == DateOrYearTokens(line)

\* re.search(r'\b(present|current|now)\b', line, re.IGNORECASE)
HasPresent(line) == line = "Software Engineer at Acme (2021 - Present)"

\* the line starts with one of - * and the bullet sign
StartsWithBullet(line) == FALSE

\* _extract_title_company(line)
TitleCompany(line) ==
    CASE line = "Senior Software Engineer at Google (2020-2023)" ->
             [title |-> "Senior Software Engineer", company |-> "Google"]
      [] line = "Python, React, AWS" -> [title |-> "Python", company |-> "React, AWS"]
      [] line = "Software Engineer at Acme (2021 - Present)" ->
             [title |-> "Software Engineer", company |-> "Acme"]
      [] line = "Engineer at Initech (2023-2020)" -> [title |-> "Engineer", company |-> "Initech"]
      [] line = "Analyst at Hooli (2019-2023)" -> [title |-> "Analyst", company |-> "Hooli"]
      [] line = "Engineer at Initech (2019)" -> [title |-> "Engineer", company |-> "Initech"]
      [] OTHER -> [title |-> line, company |-> ""]

\* _extract_degree_info(line)['degree']
DegreeIn(line) == ""

\* the names of the skills database that _skill_mentioned_in_text finds
SkillsMentioned(line) ==
    CASE line = "Built web services with Python" -> {"Python"}
      [] line = "Python, React, AWS" -> {"Python", "React", "AWS"}
      [] OTHER -> {}

\* the names of the skills database of which a keyword ('python', 'py',
\* 'react', 'reactjs', 'golang', 'go', 'aws', ...) is a word of the line
KeywordsMentioned(line) ==
    CASE line = "Built web services with Python" -> {"Python"}
      [] line = "Python, React, AWS" -> {"Python", "React", "AWS"}
      [] line = "Built apps with reactjs and golang" -> {"React", "Go"}
      [] OTHER -> {}

\* dateutil's parser.parse(date).year; month and day come from today's date
ParsedYear(date) ==
    CASE date = "2019" -> Some(2019)
      [] date = "2020" -> Some(2020)
      [] date = "2021" -> Some(2021)
      [] date = "2023" -> Some(2023)
      [] OTHER -> NoNumber

\* datetime.now().year
ClockYear == now.year

\* _clean_text: the lines of the vocabulary are clean; empty lines go
CleanText(lines) ==
    LET NotEmpty(line) == line # ""
    IN  SelectSeq(lines, NotEmpty)

RECURSIVE Flatten(_)
Flatten(lists) ==
    IF lists = <<>> THEN <<>> ELSE Head(lists) \o Flatten(Tail(lists))

\* len of the lines joined by '\n'
RECURSIVE JoinedLength(_)
JoinedLength(lines) ==
    IF lines = <<>> THEN 0
    ELSE IF Len(lines) = 1 THEN CharCount(lines[1])
    ELSE CharCount(Head(lines)) + 1 + JoinedLength(Tail(lines))

\* ---- _extract_sections ----
NoSections == [name \in {} |-> <<>>]

Put(sections, name, content) ==
    [key \in DOMAIN sections \cup {name} |-> IF key = name THEN content ELSE sections[key]]

\* sections.get(name, "")
SectionsGet(sections, name) ==
    IF name \in DOMAIN sections THEN sections[name] ELSE <<>>

\* "Save previous section" / "Save last section"
SaveSection(scan) ==
    IF scan.current_section # None /\ scan.current_content # <<>>
    THEN Put(scan.sections, scan.current_section, scan.current_content)
    ELSE scan.sections

\* one turn of the loop over the lines; the header line opens the content of
\* its section
SectionStepKeepsHeader(scan, line) ==
    LET section_found == IF WordCount(line) <= 5 THEN HeaderPattern(line) ELSE None
    IN  IF section_found # None
        THEN [sections |-> SaveSection(scan), current_section |-> section_found,
              current_content |-> <<line>>]
        ELSE IF scan.current_section # None
        THEN [scan EXCEPT !.current_content = Append(@, line)]
        ELSE IF SectionsGet(scan.sections, "summary") = <<>>
        THEN [scan EXCEPT !.sections = Put(@, "summary", <<line>>)]
        ELSE scan

\* one turn of the loop over the lines
SectionStep(scan, line) ==
    LET section_found == IF WordCount(line) <= 5 THEN HeaderPattern(line) ELSE None
    IN  IF section_found # None
        THEN [sections |-> SaveSection(scan), current_section |-> section_found,
              current_content |-> <<>>]
        ELSE IF scan.current_section # None
        THEN [scan EXCEPT !.current_content = Append(@, line)]
        ELSE IF SectionsGet(scan.sections, "summary") = <<>>
        THEN [scan EXCEPT !.sections = Put(@, "summary", <<line>>)]
        ELSE scan

RECURSIVE ScanSections(_, _)
ScanSections(lines, scan) ==
    IF lines = <<>> THEN scan
    ELSE ScanSections(Tail(lines), SectionStep(scan, Head(lines)))

ExtractSections(lines) ==
    SaveSection(ScanSections(lines, [sections |-> NoSections, current_section |-> None,
                                     current_content |-> <<>>]))

\* ---- _extract_dates, _calculate_duration_months ----
\* every end date is taken to be today
CalculateDurationMonthsToClock(start_date, end_date) ==
    LET start == ParsedYear(start_date)
    IN  IF start = NoNumber THEN NoNumber
        ELSE Some((ClockYear - start[1]) * 12)

CalculateDurationMonths(start_date, end_date) ==
    LET start == ParsedYear(start_date)
        end   == IF end_date = "Present" THEN Some(ClockYear) ELSE ParsedYear(end_date)
    IN  IF start = NoNumber \/ end = NoNumber THEN NoNumber
        ELSE Some((end[1] - start[1]) * 12)

ExtractDates(entry) ==
    LET dates == Flatten([k \in 1..Len(entry) |-> DateOrYearTokens(entry[k])])
                 \o Flatten([k \in 1..Len(entry) |-> MonthYearTokens(entry[k])])
                 \o Flatten([k \in 1..Len(entry) |-> YearTokens(entry[k])])
        has_present == \E k \in 1..Len(entry) : HasPresent(entry[k])
        start_date == IF dates # <<>> THEN dates[1] ELSE None
        end_date == IF Len(dates) >= 2 THEN (IF has_present THEN "Present" ELSE dates[2])
                    ELSE IF Len(dates) = 1 /\ has_present THEN "Present"
                    ELSE None
    IN  [start_date |-> start_date, end_date |-> end_date,
         duration_months |-> IF start_date # None /\ end_date # None
                             THEN CalculateDurationMonths(start_date, end_date)
                             ELSE NoNumber]

\* ---- _parse_work_experience_entry ----
ParseWorkExperienceEntry(entry) ==
    IF Len(entry) < 2 THEN NoneRec
    ELSE [company |-> TitleCompany(entry[1]).company,
          title |-> TitleCompany(entry[1]).title,
          start_date |-> ExtractDates(entry).start_date,
          end_date |-> ExtractDates(entry).end_date,
          duration_months |-> ExtractDates(entry).duration_months,
          description |-> Tail(entry)]

\* exp = self._parse_work_experience_entry(...); if exp: experiences.append(exp)
AppendParsed(experiences, entry) ==
    IF ParseWorkExperienceEntry(entry) # NoneRec
    THEN Append(experiences, ParseWorkExperienceEntry(entry))
    ELSE experiences

\* ---- _extract_work_experience ----
IsEntryStart(line) ==
    /\ ContainsAt(line) \/ HasYearRange(line)
    /\ WordCount(line) >= 3
    /\ CharCount(line) < 100

JobStep(scan, line) ==
    IF IsEntryStart(line)
    THEN [experiences |-> IF scan.current_job # <<>>
                          THEN AppendParsed(scan.experiences, scan.current_job)
                          ELSE scan.experiences,
          current_job |-> <<line>>]
    ELSE IF scan.current_job # <<>>
    THEN [scan EXCEPT !.current_job = Append(@, line)]
    ELSE scan

RECURSIVE ScanJobs(_, _)
ScanJobs(lines, scan) ==
    IF lines = <<>> THEN scan
    ELSE ScanJobs(Tail(lines), JobStep(scan, Head(lines)))

\* re.split(r'\n\s*\n|\n(?=[-*...])', experience_text): a new entry begins at
\* every line that starts with a bullet
RECURSIVE SplitAtBullets(_, _)
SplitAtBullets(lines, entries) ==
    IF lines = <<>> THEN entries
    ELSE IF entries = <<>> \/ StartsWithBullet(Head(lines))
    THEN SplitAtBullets(Tail(lines), Append(entries, <<Head(lines)>>))
    ELSE SplitAtBullets(Tail(lines),
                        [entries EXCEPT ![Len(entries)] = Append(@, Head(lines))])

RECURSIVE ParseEntries(_, _)
ParseEntries(entries, experiences) ==
    IF entries = <<>> THEN experiences
    ELSE ParseEntries(Tail(entries),
                      IF JoinedLength(Head(entries)) > 20
                      THEN AppendParsed(experiences, Head(entries))
                      ELSE experiences)

ExtractWorkExperience(experience_text) ==
    IF experience_text = <<>> THEN <<>>
    ELSE LET scan == ScanJobs(experience_text, [experiences |-> <<>>, current_job |-> <<>>])
             experiences == IF scan.current_job # <<>>
                            THEN AppendParsed(scan.experiences, scan.current_job)
                            ELSE scan.experiences
         IN  IF experiences # <<>> THEN experiences
             ELSE ParseEntries(SplitAtBullets(experience_text, <<>>), <<>>)

\* ---- _extract_education, _extract_skills, _extract_summary ----
ExtractEducation(education_text) ==
    LET LongEnough(line) == CharCount(line) >= 10
        entries == SelectSeq(education_text, LongEnough)
    IN  [k \in 1..Len(entries) |-> DegreeIn(entries[k])]

ExtractSkills(lines) == UNION {SkillsMentioned(lines[k]) : k \in 1..Len(lines)}

ExtractSummary(summary_text) ==
    IF summary_text = <<>> \/ JoinedLength(summary_text) < 20
    THEN NoList
    ELSE SomeList(summary_text)

\* ---- _calculate_total_experience ----
\* round(total_months / 12, 1) in tenths of a year; a tie goes to the even digit
RoundTenths(total_months) ==
    LET whole == (total_months * 10) \div 12
        rest  == (total_months * 10) % 12
    IN  IF 2 * rest < 12 THEN whole
        ELSE IF 2 * rest > 12 THEN whole + 1
        ELSE IF whole % 2 = 0 THEN whole ELSE whole + 1

RECURSIVE TotalMonths(_)
TotalMonths(work_experiences) ==
    IF work_experiences = <<>> THEN 0
    ELSE OrZero(Head(work_experiences).duration_months) + TotalMonths(Tail(work_experiences))

CalculateTotalExperience(work_experiences) ==
    IF TotalMonths(work_experiences) > 0
    THEN Some(RoundTenths(TotalMonths(work_experiences)))
    ELSE NoNumber

\* ---- analyze ----
AnalyzeResult(resume_text) ==
    LET cleaned_text == CleanText(resume_text)
        sections == ExtractSections(cleaned_text)
        work_experience == ExtractWorkExperience(SectionsGet(sections, "experience"))
    IN  [skills |-> ExtractSkills(cleaned_text),
         total_experience_years |-> CalculateTotalExperience(work_experience),
         education |-> ExtractEducation(SectionsGet(sections, "education")),
         summary |-> ExtractSummary(SectionsGet(sections, "summary")),
         work_experience |-> work_experience,
         created_at |-> now,
         metadata |-> [processed_at |-> now, sections_found |-> DOMAIN sections]]

\* analyze(text, filename); the record is kept as resume i
AnalyzeResume(i) ==
    /\ resumes[i] = NoneRec
    /\ analysis' = AnalyzeResult(text)
    /\ resumes' = [resumes EXCEPT ![i] = AnalyzeResult(text)]
    /\ UNCHANGED <<serverVars, otherVars>>
    /\ UNCHANGED <<text, extracted_sections, now, job, semantic, match_results>>
    /\ UNCHANGED <<analyzerVars, rankVars, batchVars>>

(***************************************************************************)
(* The tool server (mcp_server.py) and the HTTP server (server.py) on top  *)
(* of the storage.  The resumes table is `resumes`, keyed by resume id; a  *)
(* row that is absent reads as None.                                       *)
(***************************************************************************)
JobIds == 1..2

\* the ids a caller may pass; the last one is never stored
ResumeIds == 1..(NumResumes + 1)

\* get_resume: the row of the id, None when there is none
GetResume(resume_id) ==
    IF resume_id \in DOMAIN resumes THEN resumes[resume_id] ELSE NoneRec

\* get_job_description: the row of the id, None when there is none
GetJobDescription(job_id) ==
    IF job_id \in DOMAIN job_descriptions THEN job_descriptions[job_id] ELSE NoneRec

\* get_all_resumes: the ids of the stored resumes, in the order of the table
GetAllResumes == SelectSeq([i \in 1..NumResumes |-> i], LAMBDA i : resumes[i] # NoneRec)

\* the fields of the MatchResult model
MatchResultFields ==
    {"resume_id", "job_id", "resume_name", "job_title", "match_score", "skill_matches",
     "missing_skills", "strengths", "weaknesses", "recommendations", "overall_score",
     "ranking_position", "created_at"}

Request(name, resume_id, job_id, limit) ==
    [name |-> name, resume_id |-> resume_id, job_id |-> job_id, limit |-> limit]

\* what the caller gets: the returned dictionary of a tool, or the status
\* code and body of an HTTP response; matches are [resume_id, score] entries
Reply(request, success, status_code, error, matches, total_evaluated) ==
    [request |-> request, success |-> success, status_code |-> status_code,
     error |-> error, matches |-> matches, total_evaluated |-> total_evaluated]

ToolError(request, message) == Reply(request, FALSE, NoNumber, message, <<>>, 0)

\* matches.sort(key=score, reverse=True): descending, equal scores keep
\* their order
SortMatchesReverse(matches) ==
    LET n == Len(matches)
        Before(j, i) ==
            \/ RatLt(matches[i].score, matches[j].score)
            \/ /\ matches[i].score = matches[j].score
               /\ j < i
        Place(i) == 1 + Cardinality({j \in 1..n : Before(j, i)})
    IN  [k \in 1..n |-> matches[CHOOSE i \in 1..n : Place(i) = k]]

\* matches[:limit]
Top(matches, limit) == SubSeq(matches, 1, IF limit < Len(matches) THEN limit ELSE Len(matches))

\* the match of a stored resume with a stored job
MatchOfStored(resume_id, job_id) ==
    MatchResumeToJobResult(resumes[resume_id], job_descriptions[job_id], semantic[resume_id])

\* ---- call_tool, name == "match_resume_to_job" ----
ToolMatchResumeToJob(resume_id, job_id) ==
    LET request == Request("match_resume_to_job", resume_id, job_id, 0)
    IN  /\ IF GetResume(resume_id) = NoneRec \/ GetJobDescription(job_id) = NoneRec
           THEN /\ response' = ToolError(request, "Resume or job not found")
                /\ UNCHANGED match_results
           ELSE IF resume_id \in failing
           THEN /\ response' = ToolError(request, "Tool execution failed")
                /\ UNCHANGED match_results
           ELSE /\ match_results' = [match_results EXCEPT
                                        ![resume_id] = MatchOfStored(resume_id, job_id)]
                /\ response' = Reply(request, TRUE, NoNumber, None,
                                     <<[resume_id |-> resume_id,
                                        score |-> MatchOfStored(resume_id, job_id).overall_score]>>,
                                     1)
        /\ UNCHANGED <<resumes, job, semantic, job_descriptions, failing, match_rows>>
        /\ UNCHANGED <<job_text, job_analysis>>
        /\ UNCHANGED <<analyzerVars, rankVars, batchVars, textVars, otherVars>>

\* ---- call_tool, name == "find_best_candidates" ----
\* the loop body of one resume: match, then build the entry that reads
\* match_result.overall_match.score; any exception skips the resume
ToolCandidateBuilt(resume_id) ==
    /\ resume_id \notin failing
    /\ "overall_match" \in MatchResultFields

ToolCandidates(job_id) ==
    LET kept == SelectSeq(GetAllResumes, ToolCandidateBuilt)
    IN  [k \in 1..Len(kept) |->
            [resume_id |-> kept[k],
             score |-> MatchOfStored(kept[k], job_id).overall_match.score]]

\* the resumes whose match was computed in the loop
ScoredAll(job_id) ==
    [i \in 1..NumResumes |->
        IF resumes[i] # NoneRec /\ i \notin failing
        THEN MatchOfStored(i, job_id) ELSE match_results[i]]

ToolFindBestCandidates(job_id, limit) ==
    LET request == Request("find_best_candidates", 0, job_id, limit)
    IN  /\ IF GetJobDescription(job_id) = NoneRec
           THEN /\ response' = ToolError(request, "Job not found")
                /\ UNCHANGED match_results
           ELSE /\ match_results' = ScoredAll(job_id)
                /\ response' = Reply(request, TRUE, NoNumber, None,
                                     Top(SortMatchesReverse(ToolCandidates(job_id)), limit),
                                     Len(ToolCandidates(job_id)))
        /\ UNCHANGED <<resumes, job, semantic, job_descriptions, failing, match_rows>>
        /\ UNCHANGED <<job_text, job_analysis>>
        /\ UNCHANGED <<analyzerVars, rankVars, batchVars, textVars, otherVars>>

\* ---- ResumeMCPServer.match_resumes_to_job ----
HTTPException(status_code, detail) == [raised |-> TRUE, status_code |-> status_code, detail |-> detail]

\* the resumes matched before the loop stops: all of them, or those in
\* front of the first one whose match raises
MatchedInLoop ==
    LET all == GetAllResumes
        stops == {k \in 1..Len(all) : all[k] \in failing}
    IN  IF stops = {} THEN all
        ELSE SubSeq(all, 1, (CHOOSE k \in stops : \A l \in stops : k <= l) - 1)

\* the body of the try block: a raised exception, or the returned list
HttpTryBody(job_id, limit) ==
    IF GetJobDescription(job_id) = NoneRec
    THEN HTTPException(404, "Job description not found")
    ELSE IF \E i \in SeqToSet(GetAllResumes) : i \in failing
    THEN [raised |-> TRUE, status_code |-> 0, detail |-> "match failed"]
    ELSE [raised |-> FALSE,
          matches |-> Top(SortMatchesReverse(
                              [k \in 1..Len(GetAllResumes) |->
                                  [resume_id |-> GetAllResumes[k],
                                   score |-> MatchOfStored(GetAllResumes[k], job_id).overall_score]]),
                          limit)]

\* except Exception as e: raise HTTPException(status_code=500, ...)
HttpExceptHandler(body) ==
    IF body.raised THEN HTTPException(500, "Error matching resumes") ELSE body

HttpMatchResumesToJob(job_id, limit) ==
    LET request == Request("match_resumes_to_job", 0, job_id, limit)
        outcome == HttpExceptHandler(HttpTryBody(job_id, limit))
    IN  /\ response' = IF outcome.raised
                       THEN Reply(request, FALSE, Some(outcome.status_code), outcome.detail, <<>>, 0)
                       ELSE Reply(request, TRUE, Some(200), None, outcome.matches,
                                  Len(GetAllResumes))
        /\ match_results' =
               IF GetJobDescription(job_id) = NoneRec THEN match_results
               ELSE [i \in 1..NumResumes |->
                        IF i \in SeqToSet(MatchedInLoop)
                        THEN MatchOfStored(i, job_id) ELSE match_results[i]]
        /\ UNCHANGED <<resumes, job, semantic, job_descriptions, failing, match_rows>>
        /\ UNCHANGED <<job_text, job_analysis>>
        /\ UNCHANGED <<analyzerVars, rankVars, batchVars, textVars, otherVars>>

\* sections = self._extract_sections(cleaned_text)
ExtractSectionsOfText ==
    /\ extracted_sections = NoneRec
    /\ extracted_sections' = ExtractSections(CleanText(text))
    /\ UNCHANGED <<text, analysis, now>>
    /\ UNCHANGED <<matcherVars, analyzerVars, rankVars, batchVars, serverVars, otherVars>>

\* time passes between two calls: the clock reads a later instant, in the same
\* year or in the next
Tick ==
    /\ now.tick < MaxTicks
    /\ \E years \in {0, 1} : now' = [year |-> now.year + years, tick |-> now.tick + 1]
    /\ UNCHANGED <<text, analysis, extracted_sections>>
    /\ UNCHANGED <<matcherVars, analyzerVars, rankVars, batchVars, serverVars, otherVars>>

(***************************************************************************)
(* JobAnalyzer.analyze (job_analyzer_fixed.py).  _clean_text turns every   *)
(* run of whitespace, line breaks included, into one blank, so the text is *)
(* searched as one line; what the patterns find is tabulated per text.     *)
(***************************************************************************)
JobTextSamples ==
    {"", "We are hiring",
     "Requirements: Python, React and AWS required. 3+ years of experience",
     "Python developer. Nice to have: AWS",
     "Requirements:\nPython\n\nNice to have:\nAWS",
     "Requirements:\nPython and React\n\nPreferred:\nAWS\n"}

\* _clean_text: every run of whitespace becomes one blank, then every run of
\* characters outside the kept set (the + among them) becomes one blank, then
\* strip()
CleanJobText(text_of_job) ==
    CASE text_of_job = "Requirements: Python, React and AWS required. 3+ years of experience"
            -> "Requirements: Python, React and AWS required. 3  years of experience"
      [] text_of_job = "Requirements:\nPython\n\nNice to have:\nAWS"
            -> "Requirements: Python Nice to have: AWS"
      [] text_of_job = "Requirements:\nPython and React\n\nPreferred:\nAWS\n"
            -> "Requirements: Python and React Preferred: AWS"
      [] OTHER -> text_of_job

\* _find_requirements_sections: each pattern needs a line break after its
\* header; a cleaned text has none, so the one section is the entire text
FindRequirementsSections(cleaned_text) == <<cleaned_text>>

\* _extract_skills_from_text / _skill_mentioned_in_text: the names of the
\* skills database found between word boundaries, whatever the case
SkillsInJobText(section) ==
    CASE section = "Requirements: Python, React and AWS required. 3  years of experience"
            -> {"Python", "React", "AWS"}
      [] section = "Python developer. Nice to have: AWS" -> {"Python", "AWS"}
      [] section = "Requirements: Python Nice to have: AWS" -> {"Python", "AWS"}
      [] section = "Requirements: Python and React Preferred: AWS" -> {"Python", "React", "AWS"}
      [] section \in {": AWS", "AWS"} -> {"AWS"}
      [] OTHER -> {}

\* _extract_requirements, then _convert_requirements_to_skills_dict: the
\* skills of every section, by category
JobRequiredSkills(cleaned_text) ==
    LET req_sections == FindRequirementsSections(cleaned_text)
        found == UNION {SkillsInJobText(req_sections[k]) : k \in 1..Len(req_sections)}
    IN [c \in (IF found = {} THEN {} ELSE {"technical"}) |-> found]

\* what each of the preferred patterns captures: the text after 'preferred',
\* 'nice to have', 'bonus' or 'plus' up to the end of the cleaned text
PreferredCaptures(cleaned_text) ==
    CASE cleaned_text = "Python developer. Nice to have: AWS" -> {"AWS"}
      [] cleaned_text = "Requirements: Python Nice to have: AWS" -> {"AWS"}
      [] cleaned_text = "Requirements: Python and React Preferred: AWS" -> {"AWS"}
      [] OTHER -> {}

\* _extract_preferred_skills
JobPreferredSkills(cleaned_text) ==
    UNION {SkillsInJobText(match) : match \in PreferredCaptures(cleaned_text)}

\* _extract_experience_range: the text matched by the first pattern that
\* matches
JobExperienceRange(cleaned_text) ==
    IF cleaned_text = "Requirements: Python, React and AWS required. 3  years of experience"
    THEN "3  years of experience" ELSE None

\* _extract_education_requirements
JobEducationRequirements(cleaned_text) == None

\* analyze(job_text, job_title, company): no check of the text, a JobPosting
\* is built from whatever the extractors find
AnalyzeJobResult(text_of_job) ==
    LET cleaned_text == CleanJobText(text_of_job)
    IN [required_skills |-> JobRequiredSkills(cleaned_text),
        preferred_skills |-> JobPreferredSkills(cleaned_text),
        experience_required |-> JobExperienceRange(cleaned_text),
        education_required |-> JobEducationRequirements(cleaned_text),
        description |-> text_of_job,
        created_at |-> now]

AnalyzeJob ==
    /\ job_analysis = NoneRec
    /\ job_analysis' = AnalyzeJobResult(job_text)
    /\ UNCHANGED <<job_descriptions, failing, match_rows, response, job_text>>
    /\ UNCHANGED <<matcherVars, analyzerVars, rankVars, batchVars, textVars, otherVars>>

\* ---- call_tool, name == "analyze_resume" ----
\* "" is the text of no line or of one line that is empty
IsEmptyText(lines) == lines = <<>> \/ lines = <<"">>

\* analyze is a coroutine function and is called without await: what the
\* handler holds is a coroutine object, not a ResumeData
Awaited == FALSE

\* resume_data.id = resume_id on a coroutine object raises AttributeError,
\* which the handler of call_tool turns into an error reply
ToolAnalyzeResume ==
    LET request == Request("analyze_resume", 0, 0, 0)
    IN  /\ response' =
               IF IsEmptyText(text)
               THEN ToolError(request, "Could not extract text from file")
               ELSE IF ~Awaited
               THEN ToolError(request, "Tool execution failed")
               ELSE Reply(request, TRUE, NoNumber, None, <<>>, 0)
        /\ UNCHANGED <<job_descriptions, failing, match_rows, job_text, job_analysis>>
        /\ UNCHANGED <<matcherVars, analyzerVars, rankVars, batchVars, textVars, otherVars>>

\* ---- call_tool, name == "analyze_job_description" ----
\* no check of job_text; job_data.id = job_id fails in the same way
ToolAnalyzeJobDescription ==
    LET request == Request("analyze_job_description", 0, 0, 0)
    IN  /\ response' =
               IF ~Awaited
               THEN ToolError(request, "Tool execution failed")
               ELSE Reply(request, TRUE, NoNumber, None, <<>>, 0)
        /\ UNCHANGED <<job_descriptions, failing, match_rows, job_text, job_analysis>>
        /\ UNCHANGED <<matcherVars, analyzerVars, rankVars, batchVars, textVars, otherVars>>

(***************************************************************************)
(* StorageManager (storage/storage_manager_fixed.py).  The resumes table   *)
(* is `resumes`, the job_descriptions table `job_descriptions`, both keyed *)
(* by id; the match_results table is the list `match_rows`.                *)
(***************************************************************************)
TypeError == [raised |-> "TypeError"]

AttributeError == [raised |-> "AttributeError"]

\* model_dump() keeps a datetime as a datetime object; created_at is one
ContainsDatetime(dump) == "created_at" \in DOMAIN dump

\* json.dumps(dump, sort_keys=True): the text of the dictionary; a value that
\* is a datetime object is not JSON serializable
JsonDumps(dump) == IF ContainsDatetime(dump) THEN TypeError ELSE [json |-> dump]

\* hashlib.sha256(content_str.encode()).hexdigest()
Sha256(content_str) == [sha256 |-> content_str]

\* what a save call gives back: the id it returns, or the exception it raises
Returns(name, data, id) ==
    [request |-> [name |-> name, data |-> data], success |-> TRUE, error |-> None, id |-> Some(id)]

Raises(name, data, exception) ==
    [request |-> [name |-> name, data |-> data], success |-> FALSE,
     error |-> exception.raised, id |-> NoNumber]

\* SELECT id FROM <table> WHERE content_hash = ?
RowsWithHash(table, content_hash) ==
    {id \in DOMAIN table : table[id] # NoneRec /\ Sha256(JsonDumps(table[id])) = content_hash}

\* str(uuid.uuid4()): an id that no row has
FreshIds(table) == {id \in DOMAIN table : table[id] = NoneRec}

\* ---- save_resume ----
SaveResume(resume_data) ==
    LET content_str == JsonDumps(resume_data)
        existing == RowsWithHash(resumes, Sha256(content_str))
    IN  /\ IF content_str = TypeError
           THEN /\ response' = Raises("save_resume", resume_data, TypeError)
                /\ UNCHANGED resumes
           ELSE IF existing # {}
           THEN /\ response' = Returns("save_resume", resume_data, CHOOSE id \in existing : TRUE)
                /\ UNCHANGED resumes
           ELSE \E resume_id \in FreshIds(resumes) :
                   /\ resumes' = [resumes EXCEPT ![resume_id] = resume_data]
                   /\ response' = Returns("save_resume", resume_data, resume_id)
        /\ UNCHANGED <<job, semantic, match_results, job_descriptions, failing, match_rows>>
        /\ UNCHANGED <<job_text, job_analysis>>
        /\ UNCHANGED <<analyzerVars, rankVars, batchVars, textVars, otherVars>>

\* ---- save_job_description ----
SaveJobDescription(job_data) ==
    LET content_str == JsonDumps(job_data)
        existing == RowsWithHash(job_descriptions, Sha256(content_str))
    IN  /\ IF content_str = TypeError
           THEN /\ response' = Raises("save_job_description", job_data, TypeError)
                /\ UNCHANGED job_descriptions
           ELSE IF existing # {}
           THEN /\ response' = Returns("save_job_description", job_data,
                                       CHOOSE id \in existing : TRUE)
                /\ UNCHANGED job_descriptions
           ELSE \E job_id \in FreshIds(job_descriptions) :
                   /\ job_descriptions' = [job_descriptions EXCEPT ![job_id] = job_data]
                   /\ response' = Returns("save_job_description", job_data, job_id)
        /\ UNCHANGED <<resumes, job, semantic, match_results, failing, match_rows>>
        /\ UNCHANGED <<job_text, job_analysis>>
        /\ UNCHANGED <<analyzerVars, rankVars, batchVars, textVars, otherVars>>

\* ---- save_match_result ----
\* no lookup: a new id for every call; the INSERT reads
\* match_result.overall_match, which the MatchResult model does not have
SaveMatchResult(match_result) ==
    LET content_str == JsonDumps(match_result)
    IN  /\ IF content_str = TypeError
           THEN /\ response' = Raises("save_match_result", match_result, TypeError)
                /\ UNCHANGED match_rows
           ELSE IF "overall_match" \notin MatchResultFields
           THEN /\ response' = Raises("save_match_result", match_result, AttributeError)
                /\ UNCHANGED match_rows
           ELSE /\ match_rows' = Append(match_rows, [id |-> Len(match_rows) + 1,
                                                     resume_id |-> match_result.resume_id,
                                                     job_id |-> match_result.job_id,
                                                     data |-> content_str])
                /\ response' = Returns("save_match_result", match_result, Len(match_rows) + 1)
        /\ UNCHANGED <<resumes, job, semantic, match_results, job_descriptions, failing>>
        /\ UNCHANGED <<job_text, job_analysis>>
        /\ UNCHANGED <<analyzerVars, rankVars, batchVars, textVars, otherVars>>

\* ---- delete_resume ----
\* cursor.rowcount after DELETE FROM match_results WHERE resume_id = ?
DeleteMatchesRowcount(resume_id) ==
    Cardinality({k \in 1..Len(match_rows) : match_rows[k].resume_id = resume_id})

\* cursor.rowcount when delete_resume returns: that of the statement executed
\* last, DELETE FROM resumes WHERE id = ?
DeleteResumeRowcount(resume_id) ==
    Cardinality({id \in DOMAIN resumes : id = resume_id /\ resumes[id] # NoneRec})

DeleteResume(resume_id) ==
    /\ match_rows' = SelectSeq(match_rows, LAMBDA row : row.resume_id # resume_id)
    /\ resumes' = [id \in DOMAIN resumes |-> IF id = resume_id THEN NoneRec ELSE resumes[id]]
    /\ response' = [request |-> [name |-> "delete_resume", resume_id |-> resume_id],
                    returned |-> DeleteResumeRowcount(resume_id) > 0]
    /\ UNCHANGED <<job, semantic, match_results, job_descriptions, failing>>
    /\ UNCHANGED <<job_text, job_analysis>>
    /\ UNCHANGED <<analyzerVars, rankVars, batchVars, textVars, otherVars>>

\* ---- save_resume, called by callers that run side by side ----
\* sqlite3.IntegrityError: UNIQUE constraint failed: resumes.content_hash
IntegrityError == [raised |-> "IntegrityError"]

\* caller c calls save_resume(resume_data)
CallSaveResume(c, resume_data) ==
    /\ save_calls[c].pc = "idle"
    /\ save_calls' = [save_calls EXCEPT ![c] = [pc |-> "called", resume_data |-> resume_data]]
    /\ UNCHANGED <<agentVars, parsed>>
    /\ UNCHANGED <<matcherVars, analyzerVars, rankVars, batchVars, textVars, serverVars>>

\* the next statements of caller c's save_resume, up to the point where the
\* other connection can act: from the call, the content hash and the lookup
\* by it; from the lookup, the INSERT and its commit
SaveResumeStep(c) ==
    LET call == save_calls[c] IN
    /\ call.pc \in {"called", "looked up"}
    /\ IF call.pc = "called"
       THEN LET content_str == JsonDumps(call.resume_data)
                content_hash == Sha256(content_str)
                existing == RowsWithHash(resumes, content_hash)
            IN  /\ save_calls' = [save_calls EXCEPT ![c] =
                        IF content_str = TypeError
                        THEN [pc |-> "raised", resume_data |-> call.resume_data,
                              error |-> TypeError.raised]
                        ELSE IF existing # {}
                        THEN [pc |-> "returned", resume_data |-> call.resume_data,
                              id |-> CHOOSE id \in existing : TRUE]
                        ELSE [pc |-> "looked up", resume_data |-> call.resume_data,
                              content_hash |-> content_hash]]
                /\ UNCHANGED resumes
       ELSE IF RowsWithHash(resumes, call.content_hash) # {}
       THEN /\ save_calls' = [save_calls EXCEPT ![c] =
                    [pc |-> "raised", resume_data |-> call.resume_data,
                     error |-> IntegrityError.raised]]
            /\ UNCHANGED resumes
       ELSE \E resume_id \in FreshIds(resumes) :
               /\ resumes' = [resumes EXCEPT ![resume_id] = call.resume_data]
               /\ save_calls' = [save_calls EXCEPT ![c] =
                       [pc |-> "returned", resume_data |-> call.resume_data,
                        id |-> resume_id]]
    /\ UNCHANGED <<job, semantic, match_results, agentVars, parsed>>
    /\ UNCHANGED <<analyzerVars, rankVars, batchVars, textVars, serverVars>>

(***************************************************************************)
(* GoogleAIAgent (ai_agent.py): the client is set up at construction and   *)
(* analyze_resume_with_ai either asks the generative model or falls back   *)
(* to the rule-based analysis.                                             *)
(***************************************************************************)
\* an attribute the object was never given
Unset == "unset"

GenerativeModel == "GenerativeModel"

\* _setup_client: what self.client and self.model are afterwards.  setup_raises
\* is whether genai.configure, GenerativeModel or aiplatform.init raises.
SetupClient(has_google_ai, config, setup_raises) ==
    IF ~has_google_ai
    THEN [client |-> None, model |-> Unset]
    ELSE IF config.google_api_key
         THEN [client |-> Unset, model |-> IF setup_raises THEN None ELSE GenerativeModel]
         ELSE IF config.google_cloud_project
              THEN [client |-> Unset, model |-> IF setup_raises THEN None ELSE Unset]
              ELSE [client |-> Unset, model |-> None]

\* __init__
GoogleAIAgentInit(config, setup_raises) ==
    /\ agent = NoneRec
    /\ agent' = [config |-> config] @@ SetupClient(HAS_GOOGLE_AI, config, setup_raises)
    /\ UNCHANGED <<HAS_GOOGLE_AI, ai_result, parsed, save_calls>>
    /\ UNCHANGED <<matcherVars, analyzerVars, rankVars, batchVars, textVars, serverVars>>

DefaultAnalysis ==
    [overall_score |-> R(0), experience_score |-> R(0), education_score |-> R(0),
     skills_score |-> R(0), achievements_score |-> R(0),
     matching_skills |-> {}, missing_skills |-> {}, recommendation |-> <<>>,
     confidence |-> Rat(1, 2), job_match_percentage |-> R(0),
     analysis_notes |-> "Basic rule-based analysis"]

\* _generate_basic_recommendation: the parts that "; ".join puts together
GenerateBasicRecommendation(resume, req) ==
    LET missing == LowerSet(req.required_skills) \ LowerSet(resume.skills)
        parts ==
            (IF resume.experience < 2
             THEN <<"Consider gaining more work experience">> ELSE <<>>)
            \o (IF Cardinality(resume.skills) < 5
                THEN <<"Expand technical skills portfolio">> ELSE <<>>)
            \o (IF resume.education = 0
                THEN <<"Consider pursuing formal education or certifications">> ELSE <<>>)
            \o (IF req # NoneRec /\ Cardinality(resume.skills) > 0 /\ missing # {}
                THEN <<[develop_skills_in |-> missing]>> ELSE <<>>)
    IN IF parts # <<>> THEN parts ELSE <<"Strong candidate profile">>

\* _fallback_analysis.  resume.experience and resume.education are the
\* lengths of the two lists, resume.skills the names of the skills.
FallbackAnalysis(resume, req) ==
    LET experience_score   == RatMin(Rat(resume.experience, 5), R(1))
        education_score    == RatMin(Rat(3 * resume.education, 10), R(1))
        skills_score       == RatMin(Rat(Cardinality(resume.skills), 20), R(1))
        achievements_score == Rat(1, 2)
        overall ==
            RatAdd(RatAdd(RatMul(Rat(ConfigExperienceWeight, 10), experience_score),
                          RatMul(Rat(ConfigEducationWeight, 10), education_score)),
                   RatAdd(RatMul(Rat(ConfigSkillsWeight, 10), skills_score),
                          RatMul(Rat(ConfigAchievementsWeight, 10), achievements_score)))
        resume_skills   == LowerSet(resume.skills)
        required_skills == IF req = NoneRec THEN {} ELSE LowerSet(req.required_skills)
        matching        == resume_skills \cap required_skills
        scored ==
            [DefaultAnalysis EXCEPT !.experience_score = experience_score,
                                    !.education_score = education_score,
                                    !.skills_score = skills_score,
                                    !.achievements_score = achievements_score,
                                    !.overall_score = overall]
        matched ==
            IF req = NoneRec THEN scored
            ELSE [scored EXCEPT !.matching_skills = matching,
                                !.missing_skills = required_skills \ resume_skills,
                                !.job_match_percentage =
                                    Rat(100 * Cardinality(matching),
                                        IF Cardinality(required_skills) > 1
                                        THEN Cardinality(required_skills) ELSE 1)]
    IN [matched EXCEPT !.recommendation = GenerateBasicRecommendation(resume, req)]

\* _parse_ai_response: the dict of the JSON in the text, or the default
ParseAiResponse(response_text) ==
    IF response_text = "json" THEN [from_model |-> TRUE] ELSE DefaultAnalysis

\* what await analyze_resume_with_ai(resume, job_req) gives the caller.  call is
\* what self.model.generate_content does: "raises", or the text it returns.
AnalyzeResumeWithAiOutcome(self, resume, req, call) ==
    IF self.model = Unset THEN AttributeError
    ELSE IF self.model = None THEN [returned |-> FallbackAnalysis(resume, req)]
    ELSE IF call = "raises" THEN [returned |-> FallbackAnalysis(resume, req)]
    ELSE [returned |-> ParseAiResponse(call)]

AnalyzeResumeWithAi(resume, req, call) ==
    /\ agent # NoneRec
    /\ ai_result' = [resume |-> resume, job_req |-> req, call |-> call,
                     outcome |-> AnalyzeResumeWithAiOutcome(agent, resume, req, call)]
    /\ UNCHANGED <<HAS_GOOGLE_AI, agent, parsed, save_calls>>
    /\ UNCHANGED <<matcherVars, analyzerVars, rankVars, batchVars, textVars, serverVars>>

(***************************************************************************)
(* ResumeParser._parse_text (parser.py).  The text of the file is a        *)
(* sequence of lines; what the patterns and the substring tests find in a  *)
(* line is tabulated per line.                                             *)
(***************************************************************************)
ParserLines ==
    {"Jane Doe", "jane@x.org", "Summary", "Experience", "Software Engineer", "SQL",
     "B.S. in CS, 2019"}

\* email_pattern
EmailIn(line) == IF line = "jane@x.org" THEN "jane@x.org" ELSE ""

\* 3 < len(line) < 50, no digit, none of @ .com .org .net
LooksLikeName(line) == line \in {"Jane Doe", "Summary", "Experience", "Software Engineer"}

\* any(keyword in line_lower for keyword in summary_keywords)
HasSummaryKeyword(line) == line = "Summary"

\* _is_section_header
IsSectionHeader(line) == line = "Experience"

\* any(keyword in line_lower for keyword in exp_keywords)
HasExperienceKeyword(line) == line = "Experience"

\* _looks_like_job_title
LooksLikeJobTitle(line) == line = "Software Engineer"

\* _looks_like_company
LooksLikeCompany(line) == FALSE

\* the EducationLevel of each match of a degree pattern in the line
DegreesIn(line) == IF line = "B.S. in CS, 2019" THEN <<"bachelor">> ELSE <<>>

\* the names of tech_skills and soft_skills that occur in line.lower()
ParserSkillsIn(line) == IF line = "SQL" THEN {"Sql"} ELSE {}

\* _extract_contact_info: the first email of the text, and as name the first
\* of the first five lines that looks like a name
ExtractContactInfo(lines) ==
    LET emails == {i \in 1..Len(lines) : EmailIn(lines[i]) # ""}
        names  == {i \in 1..Len(lines) : i <= 5 /\ LooksLikeName(lines[i])}
        First(indices) == CHOOSE i \in indices : \A k \in indices : i <= k
    IN [email |-> IF emails = {} THEN "" ELSE EmailIn(lines[First(emails)]),
        name  |-> IF names = {} THEN "" ELSE lines[First(names)]]

\* the inner loop of _extract_summary: lines j .. last, up to a header line
RECURSIVE SummaryLines(_, _, _)
SummaryLines(lines, j, last) ==
    IF j > last THEN <<>>
    ELSE IF IsSectionHeader(lines[j]) THEN <<>>
    ELSE <<lines[j]>> \o SummaryLines(lines, j + 1, last)

\* _extract_summary: the lines after the first line with a summary keyword,
\* at most nine of them; ' '.join is kept as the sequence it joins
ExtractParserSummary(lines) ==
    LET keyword_lines == {i \in 1..Len(lines) : HasSummaryKeyword(lines[i])}
        i == CHOOSE first \in keyword_lines : \A k \in keyword_lines : first <= k
        last == IF i + 9 < Len(lines) THEN i + 9 ELSE Len(lines)
    IN IF keyword_lines = {} THEN <<>> ELSE SummaryLines(lines, i + 1, last)

\* _extract_education: one Education per match, its level
RECURSIVE ExtractParserEducation(_)
ExtractParserEducation(lines) ==
    IF lines = <<>> THEN <<>>
    ELSE DegreesIn(Head(lines)) \o ExtractParserEducation(Tail(lines))

\* one turn of the loop of _extract_experience.  st.current is <<>> for None,
\* or <<position>> of the Experience being filled
ExperienceStep(st, line) ==
    IF HasExperienceKeyword(line)
    THEN [st EXCEPT !.in_section = TRUE]
    ELSE IF st.in_section /\ IsSectionHeader(line)
    THEN [in_section |-> FALSE, current |-> <<>>, list |-> st.list \o st.current]
    ELSE IF st.in_section /\ LooksLikeJobTitle(line)
    THEN [st EXCEPT !.list = st.list \o st.current, !.current = <<line>>]
    ELSE st

RECURSIVE ScanExperience(_, _)
ScanExperience(st, lines) ==
    IF lines = <<>> THEN st
    ELSE ScanExperience(ExperienceStep(st, Head(lines)), Tail(lines))

\* _extract_experience: the positions of the Experience entries
ExtractParserExperience(lines) ==
    LET st == ScanExperience([in_section |-> FALSE, current |-> <<>>, list |-> <<>>], lines)
    IN st.list \o st.current

\* _extract_skills
ExtractParserSkills(lines) == UNION {ParserSkillsIn(lines[i]) : i \in 1..Len(lines)}

\* variant: the summary takes the place of the name among the five checks
CalculateParsingConfidenceWithSummary(resume) ==
    LET checks == <<resume.contact_info.email # "", resume.summary # <<>>,
                    resume.education # <<>>, resume.experience # <<>>, resume.skills # {}>>
    IN RatMin(Rat(Cardinality({k \in 1..5 : checks[k]}), 5), R(1))

\* _calculate_parsing_confidence: 0.2 for each of email, name, education,
\* experience and skills that is there
CalculateParsingConfidence(resume) ==
    LET checks == <<resume.contact_info.email # "", resume.contact_info.name # "",
                    resume.education # <<>>, resume.experience # <<>>, resume.skills # {}>>
    IN RatMin(Rat(Cardinality({k \in 1..5 : checks[k]}), 5), R(1))

\* _parse_text
ParseTextResult(lines) ==
    LET resume == [raw_text     |-> lines,
                   contact_info |-> ExtractContactInfo(lines),
                   summary      |-> ExtractParserSummary(lines),
                   education    |-> ExtractParserEducation(lines),
                   experience   |-> ExtractParserExperience(lines),
                   skills       |-> ExtractParserSkills(lines)]
    IN resume @@ [total_experience_years |-> 2 * Len(resume.experience),
                  parsing_confidence |-> CalculateParsingConfidence(resume)]

\* parse_file on the file whose text is text
ParseFile ==
    /\ parsed = NoneRec
    /\ parsed' = ParseTextResult(text)
    /\ UNCHANGED <<agentVars, save_calls>>
    /\ UNCHANGED <<matcherVars, analyzerVars, rankVars, batchVars, textVars, serverVars>>

(***************************************************************************)
(* Inputs of the scoring specifications.  A candidate and a posting are    *)
(* drawn once and presented to both scoring paths in the schema each path  *)
(* expects.                                                                *)
(***************************************************************************)
ResumeDataOf(c) ==
    [skills |-> c.skills, total_experience_years |-> c.have, education |-> c.degrees,
     summary |-> NoList, work_experience |-> <<>>]

ParsedResumeOf(c) ==
    [skills |-> c.skills, total_experience_years |-> OrZero(c.have),
     education |-> c.levels]

JobPostingOf(p) ==
    [required_skills |-> p.required, preferred_skills |-> p.preferred,
     experience_required |-> p.experience_text, education_required |-> p.education_text,
     description |-> p.description]

JobRequirementOf(p) ==
    [required_skills |-> UNION {p.required[c] : c \in DOMAIN p.required},
     preferred_skills |-> p.preferred,
     required_experience_years |-> ExtractExperienceYears(OrElse(p.experience_text, "")),
     required_education |-> p.education_level]

Candidate(skills, have, degrees, levels) ==
    [skills |-> skills, have |-> have, degrees |-> degrees, levels |-> levels]

Posting(required, preferred, experience_text, education_text, education_level) ==
    [required |-> required, preferred |-> preferred, experience_text |-> experience_text,
     education_text |-> education_text, education_level |-> education_level,
     description |-> "We are hiring"]

NoRequired == [c \in {} |-> {}]

IdleMatcher ==
    /\ resumes = [i \in 1..NumResumes |-> ResumeDataOf(Candidate({}, NoNumber, <<>>, <<>>))]
    /\ job = JobPostingOf(Posting(NoRequired, {}, None, None, "other"))
    /\ semantic = [i \in 1..NumResumes |-> 0]
    /\ match_results = [i \in 1..NumResumes |-> NoneRec]

IdleAnalyzer ==
    /\ parsed_resumes = [i \in 1..NumResumes |-> ParsedResumeOf(Candidate({}, NoNumber, <<>>, <<>>))]
    /\ job_req = NoneRec
    /\ resume_scores = [i \in 1..NumResumes |-> NoneRec]

IdleRank ==
    /\ results = <<>>
    /\ sorted_results = NoneRec
    /\ filtered = <<>>

IdleBatch ==
    /\ file_paths = <<>>
    /\ batch_size_limit = DefaultBatchSizeLimit
    /\ task = <<>>
    /\ permits = 0
    /\ batch = [pc |-> "idle"]

\* the date of the first call
Today == [year |-> 2026, tick |-> 0]

IdleText ==
    /\ text = <<>>
    /\ analysis = NoneRec
    /\ extracted_sections = NoneRec
    /\ now = Today

IdleServer ==
    /\ job_descriptions = <<>>
    /\ failing = {}
    /\ match_rows = <<>>
    /\ response = NoneRec
    /\ job_text = ""
    /\ job_analysis = NoneRec

IdleAgent ==
    /\ HAS_GOOGLE_AI = FALSE
    /\ agent = NoneRec
    /\ ai_result = NoneRec

Callers == 1..2

IdleCalls == save_calls = [c \in Callers |-> [pc |-> "idle"]]

IdleOther ==
    /\ IdleAgent
    /\ parsed = NoneRec
    /\ IdleCalls

\* both scoring paths are given the candidates cs and the posting p
ScoringInit(cs, p, cosines) ==
    /\ resumes = [i \in 1..NumResumes |-> ResumeDataOf(cs[i])]
    /\ job = JobPostingOf(p)
    /\ semantic = cosines
    /\ match_results = [i \in 1..NumResumes |-> NoneRec]
    /\ parsed_resumes = [i \in 1..NumResumes |-> ParsedResumeOf(cs[i])]
    /\ job_req = JobRequirementOf(p)
    /\ resume_scores = [i \in 1..NumResumes |-> NoneRec]
    /\ IdleRank /\ IdleBatch /\ IdleText /\ IdleServer /\ IdleOther

ScoringNext ==
    \/ \E i \in 1..NumResumes : MatchResumeToJob(i)
    \/ \E i \in 1..NumResumes : ScoreResumeAgainstJob(i)

\* ---- experience: candidates differ only in their years of experience ----
HaveValues == {NoNumber} \cup {Some(5 * k) : k \in 0..MaxHalfYears}

InitExperience ==
    \E cs \in [1..NumResumes -> {Candidate({}, h, <<>>, <<>>) : h \in HaveValues}] :
    \E t \in ExperienceTexts \cup {None} :
        ScoringInit(cs, Posting(NoRequired, {}, t, None, "other"),
                    [i \in 1..NumResumes |-> 0])

SpecExperience == InitExperience /\ [][ScoringNext]_vars

\* ---- skills ----
CandidateSkillSets == {{}, {"Python"}, {"Python", "react"}, {"Python", "React", "AWS"}, {"aws"}}

RequiredSkillMaps ==
    {[c \in cats |-> {}] : cats \in {{}, {"technical"}}}
      \cup {[c \in {"programming_languages"} |-> s] : s \in {{"python"}, {"Python", "python"}}}
      \cup {[c \in {"technical"} |-> s] : s \in {{"React"}, {"Python", "React", "AWS"}}}
      \cup {[c \in {"programming_languages", "technical"} |->
                IF c = "technical" THEN s ELSE {"Python"}] : s \in {{}, {"react", "AWS"}}}

PreferredSkillSets == {{}, {"aws"}, {"Python", "AWS"}}

InitSkills ==
    \E cs \in [1..NumResumes -> {Candidate(s, NoNumber, <<>>, <<>>) : s \in CandidateSkillSets}] :
    \E req \in RequiredSkillMaps : \E pref \in PreferredSkillSets :
        ScoringInit(cs, Posting(req, pref, None, None, "other"),
                    [i \in 1..NumResumes |-> 0])

SpecSkills == InitSkills /\ [][ScoringNext]_vars

\* ---- education: the degree texts of a candidate and the level each has ----
EducationSamples ==
    {[degrees |-> <<>>, levels |-> <<>>],
     [degrees |-> <<"">>, levels |-> <<"other">>],
     [degrees |-> <<"High School">>, levels |-> <<"high_school">>],
     [degrees |-> <<"b.s">>, levels |-> <<"certificate">>],
     [degrees |-> <<"associate">>, levels |-> <<"associate">>],
     [degrees |-> <<"Bachelor of Science">>, levels |-> <<"bachelor">>],
     [degrees |-> <<"Master">>, levels |-> <<"master">>],
     [degrees |-> <<"PhD">>, levels |-> <<"doctorate">>],
     [degrees |-> <<"Master", "Bachelor of Science">>, levels |-> <<"master", "bachelor">>],
     [degrees |-> <<"associate", "PhD">>, levels |-> <<"associate", "doctorate">>]}

EducationRequirements ==
    {[text |-> None, level |-> "other"],
     [text |-> "", level |-> "other"],
     [text |-> "degree", level |-> "certificate"],
     [text |-> "High School", level |-> "high_school"],
     [text |-> "associate", level |-> "associate"],
     [text |-> "bachelor", level |-> "bachelor"],
     [text |-> "Bachelor's or Master's degree", level |-> "bachelor"],
     [text |-> "Master", level |-> "master"],
     [text |-> "PhD", level |-> "doctorate"]}

InitEducation ==
    \E cs \in [1..NumResumes -> {Candidate({}, NoNumber, e.degrees, e.levels) : e \in EducationSamples}] :
    \E r \in EducationRequirements :
        ScoringInit(cs, Posting(NoRequired, {}, None, r.text, r.level),
                    [i \in 1..NumResumes |-> 0])

SpecEducation == InitEducation /\ [][ScoringNext]_vars

\* ---- overall: candidates and postings that spread all four components ----
SemanticValues == {0, 40, 100}

OverallCandidates ==
    {Candidate({}, NoNumber, <<>>, <<>>),
     Candidate({"Python"}, Some(10), <<"associate">>, <<"associate">>),
     Candidate({"Python", "react"}, Some(30), <<"Bachelor of Science">>, <<"bachelor">>),
     Candidate({"Python", "React", "AWS"}, Some(30), <<>>, <<>>),
     Candidate({"aws"}, Some(60), <<"Master">>, <<"master">>),
     Candidate({"Python", "React", "AWS"}, Some(60), <<"PhD">>, <<"doctorate">>)}

OverallPostings ==
    {Posting(NoRequired, {}, None, None, "other"),
     Posting([c \in {"technical"} |-> {"Python", "React", "AWS"}], {}, "3+ years", None, "other"),
     Posting([c \in {"programming_languages"} |-> {"python"}], {"aws"}, "5 years", "Master", "master"),
     Posting([c \in {"technical"} |-> {"React"}], {"Python", "AWS"}, "2-4 years", "bachelor", "bachelor"),
     Posting([c \in {"technical"} |-> {"React"}], {}, "senior level", "PhD", "doctorate")}

InitOverall ==
    \E cs \in [1..NumResumes -> OverallCandidates] :
    \E p \in OverallPostings :
    \E cosine \in SemanticValues :
        ScoringInit(cs, p, [i \in 1..NumResumes |-> cosine])

SpecOverall == InitOverall /\ [][ScoringNext]_vars

\* ---- ranking and filtering: a list of analysed resumes ----
AnalysisResultOf(overall_score, job_match_percentage, years, skills, levels) ==
    [resume |-> [total_experience_years |-> years, skills |-> skills,
                 education |-> levels],
     score |-> [overall_score |-> overall_score],
     job_match_percentage |-> job_match_percentage,
     ranking |-> 0]

ResultSamples ==
    { AnalysisResultOf(Rat(9, 10), R(50), R(5), <<"Python", "React">>, <<"bachelor">>),
      AnalysisResultOf(Rat(7, 10), R(100), R(2), <<"python">>, <<"master">>),
      AnalysisResultOf(Rat(7, 10), R(50), R(0), <<>>, <<>>),
      AnalysisResultOf(Rat(5, 10), R(100), R(3), <<"Python", "aws">>, <<"high_school">>) }

CriteriaSamples ==
    { Criteria(min_score, R(0), required_skills, None) :
          min_score \in {R(0), Rat(7, 10)},
          required_skills \in {NoList, SomeList(<<"Python">>),
                               SomeList(<<"python", "AWS">>)} }
    \cup { DefaultCriteria,
           Criteria(R(0), R(0), SomeList(<<>>), "other"),
           Criteria(R(0), R(3), NoList, "bachelor") }

RankJobRequirements ==
    {NoneRec, JobRequirementOf(Posting([c \in {"technical"} |-> {"Python"}], {}, None, None, "other"))}

RankInit(job_reqs) ==
    /\ \E n \in 0..MaxResults : results \in [1..n -> ResultSamples]
    /\ job_req \in job_reqs
    /\ sorted_results = NoneRec
    /\ filtered = <<>>
    /\ parsed_resumes = [i \in 1..NumResumes |-> ParsedResumeOf(Candidate({}, NoNumber, <<>>, <<>>))]
    /\ resume_scores = [i \in 1..NumResumes |-> NoneRec]
    /\ IdleMatcher /\ IdleBatch /\ IdleText /\ IdleServer /\ IdleOther

InitRank == RankInit(RankJobRequirements)

SpecRank == InitRank /\ [][SortResumesByRelevance]_vars

InitFilter == RankInit({NoneRec})

FilterNext ==
    \/ \E criteria \in CriteriaSamples : FilterResumesByCriteria(criteria)
    \/ \E criteria \in CriteriaSamples : FilterResumesAgain(criteria)

SpecFilter == InitFilter /\ [][FilterNext]_vars

\* ---- batch analysis: a list of file paths ----
SmallBatchSizeLimit == 4

BatchSizeLimits == {SmallBatchSizeLimit, DefaultBatchSizeLimit}

\* n distinct paths, listed upwards or downwards
PathLists ==
    UNION { {[i \in 1..n |-> i], [i \in 1..n |-> n + 1 - i]} : n \in 0..MaxPaths }

InitBatch ==
    /\ file_paths \in PathLists
    /\ batch_size_limit \in BatchSizeLimits
    /\ task = <<>>
    /\ permits = 0
    /\ batch = [pc |-> "called"]
    /\ IdleMatcher /\ IdleAnalyzer /\ IdleRank /\ IdleText /\ IdleServer /\ IdleOther

BatchNext ==
    \/ AnalyzeBatchResumes
    \/ \E i \in 1..Len(task) : EnterSemaphore(i)
    \/ \E i \in 1..Len(task) : AnalysisReturns(i)
    \/ \E i \in 1..Len(task) : AnalysisRaises(i)
    \/ BatchReturns

SpecBatch == InitBatch /\ [][BatchNext]_vars

\* ---- batch analysis under the scheduling of the event loop ----
\* The event loop runs every coroutine that is ready: the call proceeds to
\* the gather, a waiter of the semaphore is woken when a slot is free, and
\* gather resumes the caller when all tasks are done.  Every single-resume
\* analysis that has started returns or raises in the end.
BatchFairness ==
    /\ WF_vars(AnalyzeBatchResumes)
    /\ WF_vars(\E i \in 1..Len(task) : EnterSemaphore(i))
    /\ \A i \in 1..MaxPaths :
            WF_vars(i \in 1..Len(task) /\ (AnalysisReturns(i) \/ AnalysisRaises(i)))
    /\ WF_vars(BatchReturns)

SpecBatchLive == InitBatch /\ [][BatchNext]_vars /\ BatchFairness

\* ---- text pipeline: a resume text is analysed, the record is matched ----
Texts == UNION {[1..n -> LineSamples] : n \in 0..MaxLines}

\* the job of the end-to-end scenario
ScenarioJob ==
    Posting([c \in {"technical"} |-> {"Python", "React", "AWS"}], {}, "3+ years", None, "other")

InitPipeline ==
    /\ text \in Texts
    /\ analysis = NoneRec
    /\ extracted_sections = NoneRec
    /\ now = Today
    /\ resumes = [i \in 1..NumResumes |-> NoneRec]
    /\ job = JobPostingOf(ScenarioJob)
    /\ \E cosine \in SemanticValues : semantic = [i \in 1..NumResumes |-> cosine]
    /\ match_results = [i \in 1..NumResumes |-> NoneRec]
    /\ IdleAnalyzer /\ IdleRank /\ IdleBatch /\ IdleServer /\ IdleOther

PipelineNext ==
    \/ \E i \in 1..NumResumes : AnalyzeResume(i)
    \/ \E i \in 1..NumResumes : MatchResumeToJob(i)

SpecPipeline == InitPipeline /\ [][PipelineNext]_vars

\* ---- tool server and HTTP server over a storage with some rows ----
StoredResumes ==
    {ResumeDataOf(Candidate({"Python", "React", "AWS"}, Some(30), <<>>, <<>>)),
     ResumeDataOf(Candidate({"Python"}, NoNumber, <<>>, <<>>))}

Limits == {1, 10}

InitServer ==
    /\ resumes \in [1..NumResumes -> {NoneRec} \cup StoredResumes]
    /\ job_descriptions \in [JobIds -> {NoneRec, JobPostingOf(ScenarioJob)}]
    /\ failing \in SUBSET (1..NumResumes)
    /\ job = JobPostingOf(ScenarioJob)
    /\ semantic = [i \in 1..NumResumes |-> 0]
    /\ match_results = [i \in 1..NumResumes |-> NoneRec]
    /\ match_rows = <<>>
    /\ response = NoneRec
    /\ job_text = ""
    /\ job_analysis = NoneRec
    /\ IdleAnalyzer /\ IdleRank /\ IdleBatch /\ IdleText /\ IdleOther

ServerNext ==
    \/ \E resume_id \in ResumeIds, job_id \in JobIds : ToolMatchResumeToJob(resume_id, job_id)
    \/ \E job_id \in JobIds, limit \in Limits : ToolFindBestCandidates(job_id, limit)
    \/ \E job_id \in JobIds, limit \in Limits : HttpMatchResumesToJob(job_id, limit)

SpecServer == InitServer /\ [][ServerNext]_vars

\* ---- the two analyzers and their tools on short texts ----
ShortTexts ==
    UNION {[1..n -> LineSamples \cup {"Built apps with reactjs and golang"}] : n \in 0..2}

InitAnalyze ==
    /\ text \in ShortTexts
    /\ analysis = NoneRec
    /\ extracted_sections = NoneRec
    /\ now = Today
    /\ job_text \in JobTextSamples
    /\ job_analysis = NoneRec
    /\ resumes = [i \in 1..NumResumes |-> NoneRec]
    /\ job = JobPostingOf(ScenarioJob)
    /\ semantic = [i \in 1..NumResumes |-> 0]
    /\ match_results = [i \in 1..NumResumes |-> NoneRec]
    /\ job_descriptions = <<>>
    /\ failing = {}
    /\ match_rows = <<>>
    /\ response = NoneRec
    /\ IdleAnalyzer /\ IdleRank /\ IdleBatch /\ IdleOther

AnalyzeNext ==
    \/ \E i \in 1..NumResumes : AnalyzeResume(i)
    \/ AnalyzeJob
    \/ ToolAnalyzeResume
    \/ ToolAnalyzeJobDescription

SpecAnalyze == InitAnalyze /\ [][AnalyzeNext]_vars

\* ---- work experience with dates, analysed at different times ----
EntryLines ==
    {"Software Engineer at Acme (2021 - Present)",
     "Engineer at Initech (2023-2020)",
     "Analyst at Hooli (2019-2023)",
     "Engineer at Initech (2019)",
     "Built web services with Python"}

\* an experience section of up to four lines
DatedTexts == {<<"Experience">> \o body : body \in UNION {[1..n -> EntryLines] : n \in 0..4}}

InitDates ==
    /\ text \in DatedTexts
    /\ analysis = NoneRec
    /\ extracted_sections = NoneRec
    /\ now = Today
    /\ resumes = [i \in 1..NumResumes |-> NoneRec]
    /\ job = JobPostingOf(ScenarioJob)
    /\ semantic = [i \in 1..NumResumes |-> 0]
    /\ match_results = [i \in 1..NumResumes |-> NoneRec]
    /\ IdleAnalyzer /\ IdleRank /\ IdleBatch /\ IdleServer /\ IdleOther

DatesNext ==
    \/ \E i \in 1..NumResumes : AnalyzeResume(i)
    \/ Tick

SpecDates == InitDates /\ [][DatesNext]_vars

\* ---- the segmenter on texts of header lines and other lines ----
SegmentLines == {"Experience", "Education", "foo", "bar", ""}

SegmentTexts == UNION {[1..n -> SegmentLines] : n \in 0..MaxLines}

InitSegment ==
    /\ text \in SegmentTexts
    /\ analysis = NoneRec
    /\ extracted_sections = NoneRec
    /\ now = Today
    /\ IdleMatcher /\ IdleAnalyzer /\ IdleRank /\ IdleBatch /\ IdleServer /\ IdleOther

SpecSegment == InitSegment /\ [][ExtractSectionsOfText]_vars

\* ---- the storage: records are saved, some of them twice ----
\* the ResumeData of a short text, as analyze builds it now
SavedResumes == {AnalyzeResult(lines) : lines \in ShortTexts}

\* the JobPosting of a job text, as JobAnalyzer.analyze builds it now
SavedJobs == {AnalyzeJobResult(text_of_job) : text_of_job \in JobTextSamples}

\* the MatchResult of a resume and a job, as match_resume_to_job builds it now
SavedMatches ==
    {[resume_id |-> resume_id, job_id |-> job_id, overall_score |-> overall_score,
      ranking_position |-> NoNumber, created_at |-> now] :
         resume_id \in 1..NumResumes, job_id \in JobIds, overall_score \in {R(0), Rat(79, 100)}}

InitStorage ==
    /\ resumes = [i \in 1..NumResumes |-> NoneRec]
    /\ job_descriptions = [job_id \in JobIds |-> NoneRec]
    /\ match_rows = <<>>
    /\ response = NoneRec
    /\ failing = {}
    /\ job_text = ""
    /\ job_analysis = NoneRec
    /\ job = JobPostingOf(ScenarioJob)
    /\ semantic = [i \in 1..NumResumes |-> 0]
    /\ match_results = [i \in 1..NumResumes |-> NoneRec]
    /\ IdleAnalyzer /\ IdleRank /\ IdleBatch /\ IdleText /\ IdleOther

StorageNext ==
    \/ \E resume_data \in SavedResumes : SaveResume(resume_data)
    \/ \E job_data \in SavedJobs : SaveJobDescription(job_data)
    \/ \E match_result \in SavedMatches : SaveMatchResult(match_result)
    \/ Tick

SpecStorage == InitStorage /\ [][StorageNext]_vars

\* ---- the storage as a database file holds it: rows are deleted ----
\* the match_results rows of up to MaxMatchRows earlier matches
StoredMatchRow(k, resume_id, job_id) ==
    [id |-> k, resume_id |-> resume_id, job_id |-> job_id,
     data |-> [json |-> [resume_id |-> resume_id, job_id |-> job_id]]]

StoredMatchRows ==
    UNION {{[k \in 1..n |-> StoredMatchRow(k, of[k][1], of[k][2])] :
                of \in [1..n -> (1..NumResumes) \X JobIds]} : n \in 0..MaxMatchRows}

InitDelete ==
    /\ resumes \in [1..NumResumes -> {NoneRec} \cup StoredResumes]
    /\ job_descriptions \in [JobIds -> {NoneRec, JobPostingOf(ScenarioJob)}]
    /\ match_rows \in StoredMatchRows
    /\ response = NoneRec
    /\ failing = {}
    /\ job_text = ""
    /\ job_analysis = NoneRec
    /\ job = JobPostingOf(ScenarioJob)
    /\ semantic = [i \in 1..NumResumes |-> 0]
    /\ match_results = [i \in 1..NumResumes |-> NoneRec]
    /\ IdleAnalyzer /\ IdleRank /\ IdleBatch /\ IdleText /\ IdleOther

SpecDelete == InitDelete /\ [][\E resume_id \in ResumeIds : DeleteResume(resume_id)]_vars

\* ---- the storage under two callers: both calls are made before either ----
\* ---- caller reaches its lookup, so that the two calls overlap           ----
NoCallerStarted == \A c \in Callers : save_calls[c].pc \in {"idle", "called"}

ConcurrentSaveNext ==
    \/ \E c \in Callers, resume_data \in SavedResumes :
            NoCallerStarted /\ CallSaveResume(c, resume_data)
    \/ \E c \in Callers : SaveResumeStep(c)

SpecConcurrentSave == InitStorage /\ [][ConcurrentSaveNext]_vars

\* ---- the generative-model agent: built under each setup, then called ----
AgentConfigs == [google_api_key : BOOLEAN, google_cloud_project : BOOLEAN]

AgentResumes == [experience : 0..2, education : 0..1, skills : {{}, {"Python"}, {"Python", "AWS"}}]

AgentJobRequirements == {NoneRec, [required_skills |-> {"Python"}], [required_skills |-> {"React", "aws"}]}

ModelCalls == {"raises", "json", "no json"}

InitAgent ==
    /\ HAS_GOOGLE_AI \in BOOLEAN
    /\ agent = NoneRec
    /\ ai_result = NoneRec
    /\ parsed = NoneRec
    /\ IdleCalls
    /\ IdleMatcher /\ IdleAnalyzer /\ IdleRank /\ IdleBatch /\ IdleText /\ IdleServer

AgentNext ==
    \/ \E config \in AgentConfigs, setup_raises \in BOOLEAN :
            GoogleAIAgentInit(config, setup_raises)
    \/ \E resume \in AgentResumes, req \in AgentJobRequirements, call \in ModelCalls :
            AnalyzeResumeWithAi(resume, req, call)

SpecAgent == InitAgent /\ [][AgentNext]_vars

\* ---- the file parser on short texts ----
ParserTexts == UNION {[1..n -> ParserLines] : n \in 1..MaxLines}

InitParser ==
    /\ text \in ParserTexts
    /\ analysis = NoneRec
    /\ extracted_sections = NoneRec
    /\ now = Today
    /\ parsed = NoneRec
    /\ IdleAgent /\ IdleCalls
    /\ IdleMatcher /\ IdleAnalyzer /\ IdleRank /\ IdleBatch /\ IdleServer

SpecParser == InitParser /\ [][ParseFile]_vars

\* ---- end to end: analyze, then match_resume_to_job ----
\* the text has the line somewhere below the header line, with no other
\* header line between the two
Under(header, line) ==
    \E h, l \in 1..Len(text) :
        /\ h < l
        /\ text[h] = header
        /\ text[l] = line
        /\ \A k \in (h + 1)..(l - 1) : HeaderPattern(text[k]) = None

AnalysedAndMatched(i) == resumes[i] # NoneRec /\ match_results[i] # NoneRec

\* C1: a resume text with 'Senior Software Engineer at Google (2020-2023)'
\* under an 'Experience' header and 'Python, React, AWS' under a 'Skills'
\* header, analysed and then matched against the job requiring the technical
\* skills Python, React, AWS and '3+ years', gets a skill score of 100, an
\* experience score of at least 80 and an overall score of at least 85.
C1_EndToEndScenario ==
    \A i \in 1..NumResumes :
        ( /\ Under("Experience", "Senior Software Engineer at Google (2020-2023)")
          /\ Under("Skills", "Python, React, AWS")
          /\ AnalysedAndMatched(i) )
        => /\ match_results[i].skill_match.score = R(100)
           /\ RatLeq(R(80), match_results[i].experience_match.score)
           /\ RatLeq(R(85), match_results[i].overall_match.score)

\* ---- batch analysis: analyze_batch_resumes ----
Succeeded(i) == task[i] = "returned"

\* the results of the analyses that succeeded, in the order of the paths
SuccessesInInputOrder ==
    LET Ok(i) == Succeeded(i)
        kept == SelectSeq([i \in 1..Len(file_paths) |-> i], Ok)
    IN  [k \in 1..Len(kept) |-> ResultFor(file_paths[kept[k]])]

\* C2: the batch operation never raises because single analyses raised; it
\* returns exactly the results of the analyses that succeeded, in input
\* order, and the failures are left out of the list and show only in the
\* count of the summary.
C2_BatchIsolatesFailures ==
    /\ batch.pc # "raised"
    /\ batch.pc = "returned" =>
           /\ batch.value = SuccessesInInputOrder
           /\ \A k \in 1..Len(batch.value) : ~IsException(batch.value[k])
           /\ batch.succeeded = Cardinality({i \in 1..Len(task) : Succeeded(i)})
           /\ batch.total - batch.succeeded =
                  Cardinality({i \in 1..Len(task) : task[i] = "raised"})

\* a batch returned in which an analysis raised between two that succeeded,
\* the paths not being listed upwards
C2_Witness ==
    /\ batch.pc = "returned"
    /\ \E i, j, k \in 1..Len(task) :
           /\ i < j /\ j < k
           /\ Succeeded(i) /\ task[j] = "raised" /\ Succeeded(k)
           /\ file_paths[i] > file_paths[k]
    /\ Len(batch.value) > 1
    /\ Len(batch.value) < batch.total

\* ---- ranking: sort_resumes_by_relevance ----
Ranked == sorted_results # NoneRec

RankedList == sorted_results.value

OverallOf(ref) == results[ref].score.overall_score

MatchOf(ref) == results[ref].job_match_percentage

\* the key the sort compares: the overall score, preceded by the job match
\* percentage when a job requirement was supplied
SameSortKey(a, b) ==
    /\ OverallOf(a) = OverallOf(b)
    /\ job_req # NoneRec => MatchOf(a) = MatchOf(b)

SortKeyAtLeast(a, b) ==
    IF job_req # NoneRec
    THEN \/ RatLt(MatchOf(b), MatchOf(a))
         \/ MatchOf(a) = MatchOf(b) /\ RatLeq(OverallOf(b), OverallOf(a))
    ELSE RatLeq(OverallOf(b), OverallOf(a))

\* the ranked list holds every result once and the ranking written into the
\* result at position k is k
GapFree ==
    /\ Len(RankedList) = Len(results)
    /\ SeqToSet(RankedList) = 1..Len(results)
    /\ \A k \in 1..Len(RankedList) : results[RankedList[k]].ranking = k

\* C3 as stated: two results with identical overall scores keep their
\* relative input order in the ranked output, and the ranking positions of
\* N results are exactly 1..N in output order.
C3_StableByOverallScore ==
    Ranked =>
        /\ \A k, l \in 1..Len(RankedList) :
               (k < l /\ OverallOf(RankedList[k]) = OverallOf(RankedList[l]))
                   => RankedList[k] < RankedList[l]
        /\ GapFree

\* C3 amended: two results with identical sort keys (the overall score, and
\* also the job match percentage when a job requirement is supplied) keep
\* their relative input order in the ranked output, and the ranking
\* positions of N results are exactly 1..N in output order, with no gaps and
\* no duplicates.
C3_StableBySortKey ==
    Ranked =>
        /\ \A k, l \in 1..Len(RankedList) :
               (k < l /\ SameSortKey(RankedList[k], RankedList[l]))
                   => RankedList[k] < RankedList[l]
        /\ GapFree

\* three results were ranked, two with the same sort key and a third with a
\* higher key that came after them in the input
C3_Witness ==
    /\ Ranked
    /\ Len(RankedList) >= 3
    /\ \E a, b, c \in 1..Len(results) :
           /\ a < b /\ b < c
           /\ SameSortKey(a, b)
           /\ ~SameSortKey(b, c)
           /\ results[c].ranking = 1
           /\ results[a].ranking < results[b].ranking

ReachesScore(ref, min_score) == RatLeq(min_score, OverallOf(ref))

HoldsSkills(ref, required_skills) ==
    \A wanted \in SeqToSet(required_skills) :
        \E k \in 1..Len(results[ref].resume.skills) :
            Lower(results[ref].resume.skills[k]) = Lower(wanted)

SkillsOf(criteria) ==
    IF criteria.required_skills = NoList THEN <<>> ELSE criteria.required_skills[1]

\* a call that filters by score and skills only
ScoreAndSkills(call) ==
    /\ call.criteria.min_experience = R(0)
    /\ call.criteria.education_level = None

ScoreOnly(call) == ScoreAndSkills(call) /\ SkillsOf(call.criteria) = <<>>

SkillsOnly(call) == ScoreAndSkills(call) /\ call.criteria.min_score = R(0)

BothOf(list, min_score, required_skills) ==
    LET Both(ref) == ReachesScore(ref, min_score) /\ HoldsSkills(ref, required_skills)
    IN  SelectSeq(list, Both)

\* C5: filtering by a minimum score and a required-skills list returns
\* exactly the results (in list order) that satisfy both predicates, and
\* applying the score filter and the skills filter one after the other, in
\* either order, returns what applying them together returns.
C5_FilterConjunction ==
    /\ \A n \in 1..Len(filtered) :
           ScoreAndSkills(filtered[n]) =>
               filtered[n].output =
                   BothOf(filtered[n].input, filtered[n].criteria.min_score,
                          SkillsOf(filtered[n].criteria))
    /\ \A first, second \in 1..Len(filtered) :
           ( /\ first < second
             /\ filtered[first].input = AllResults
             /\ filtered[second].input = filtered[first].output )
           => /\ (ScoreOnly(filtered[first]) /\ SkillsOnly(filtered[second]))
                  => filtered[second].output =
                         BothOf(AllResults, filtered[first].criteria.min_score,
                                SkillsOf(filtered[second].criteria))
              /\ (SkillsOnly(filtered[first]) /\ ScoreOnly(filtered[second]))
                  => filtered[second].output =
                         BothOf(AllResults, filtered[second].criteria.min_score,
                                SkillsOf(filtered[first].criteria))

\* a skills filter was applied to the output of a score filter; each of the
\* two dropped a result, one result has exactly the minimum score and one
\* holds the skill in another letter case, and a result got through
C5_Witness ==
    /\ Len(filtered) > 1
    /\ filtered[1].input = AllResults
    /\ filtered[Len(filtered)].input = filtered[1].output
    /\ ScoreOnly(filtered[1]) /\ filtered[1].criteria.min_score # R(0)
    /\ SkillsOnly(filtered[Len(filtered)])
    /\ Len(filtered[1].output) < Len(filtered[1].input)
    /\ Len(filtered[Len(filtered)].output) < Len(filtered[1].output)
    /\ \E ref \in SeqToSet(filtered[Len(filtered)].output) :
           /\ OverallOf(ref) = filtered[1].criteria.min_score
           /\ \E k \in 1..Len(results[ref].resume.skills) :
                  results[ref].resume.skills[k]
                      \notin SeqToSet(SkillsOf(filtered[Len(filtered)].criteria))

(***************************************************************************)
(* Properties of the scoring paths.                                        *)
(***************************************************************************)
Matched(i) == match_results[i] # NoneRec

Scored(i) == resume_scores[i] # NoneRec

HaveOf(i) == OrZero(resumes[i].total_experience_years)

NeedOf == ExtractExperienceYears(OrElse(job.experience_required, ""))

\* C6: for a fixed requirement need > 0, a resume with at least as many years
\* of experience as another never gets a lower experience score, on the
\* ResumeMatcher path and on the ResumeAnalyzer path.
C6_ExperienceMonotone ==
    \A i, k \in 1..NumResumes :
        /\ (Matched(i) /\ Matched(k) /\ NeedOf > 0 /\ HaveOf(i) <= HaveOf(k))
              => RatLeq(match_results[i].experience_match.score,
                        match_results[k].experience_match.score)
        /\ (Scored(i) /\ Scored(k) /\ job_req.required_experience_years > 0
                /\ parsed_resumes[i].total_experience_years
                      <= parsed_resumes[k].total_experience_years)
              => RatLeq(resume_scores[i].experience_score, resume_scores[k].experience_score)

\* two resumes on either side of the requirement, scored on both paths
C6_Witness ==
    \E i, k \in 1..NumResumes :
        /\ Matched(i) /\ Matched(k) /\ Scored(i) /\ Scored(k)
        /\ NeedOf > 0
        /\ 0 < HaveOf(i) /\ HaveOf(i) < 10 * NeedOf /\ 10 * NeedOf < HaveOf(k)
        /\ RatLt(match_results[i].experience_match.score,
                 match_results[k].experience_match.score)
        /\ RatLt(resume_scores[i].experience_score, resume_scores[k].experience_score)

RequiresASkill(j) == \E c \in DOMAIN j.required_skills : j.required_skills[c] # {}

HasEverySkill(resume, j) == JobSkillSet(j) \subseteq LowerSet(resume.skills)

\* C7: against a job that requires at least one skill, a resume with no skill
\* scores 0 and a resume holding every required and every preferred skill
\* scores 100.
C7_SkillScoreBoundary ==
    \A i \in 1..NumResumes :
        (Matched(i) /\ RequiresASkill(job)) =>
            /\ resumes[i].skills = {} => match_results[i].skill_match.score = R(0)
            /\ HasEverySkill(resumes[i], job) => match_results[i].skill_match.score = R(100)

C7_Witness ==
    /\ RequiresASkill(job) /\ job.preferred_skills # {}
    /\ \E i, k \in 1..NumResumes :
        /\ Matched(i) /\ resumes[i].skills = {}
        /\ match_results[i].skill_match.score = R(0)
        /\ Matched(k) /\ HasEverySkill(resumes[k], job)
        /\ match_results[k].skill_match.score = R(100)

InRange(x, lo, hi) == RatLeq(R(lo), x) /\ RatLeq(x, R(hi))

\* C8: the overall score is 0.40 skills + 0.30 experience + 0.15 education
\* + 0.15 semantic, and lies in 0..100 when the four components do.
C8_OverallWeightedSum ==
    \A i \in 1..NumResumes :
        Matched(i) =>
            LET m == match_results[i]
                s == m.skill_match.score
                e == m.experience_match.score
                d == m.education_match.score
                t == m.semantic_score
                o == m.overall_match.score
            IN /\ o.n * (100 * s.d * e.d * d.d * t.d)
                    = o.d * (40 * s.n * e.d * d.d * t.d + 30 * e.n * s.d * d.d * t.d
                               + 15 * d.n * s.d * e.d * t.d + 15 * t.n * s.d * e.d * d.d)
               /\ (InRange(s, 0, 100) /\ InRange(e, 0, 100) /\ InRange(d, 0, 100)
                     /\ InRange(t, 0, 100)) => InRange(o, 0, 100)

\* a match whose four components are pairwise different and none is 0 or 100
C8_Witness ==
    \E i \in 1..NumResumes :
        /\ Matched(i)
        /\ LET m == match_results[i]
               c == <<m.skill_match.score, m.experience_match.score,
                      m.education_match.score, m.semantic_score>>
           IN /\ \A x \in 1..4 : RatLt(R(0), c[x]) /\ RatLt(c[x], R(100))
              /\ \A x, y \in 1..4 : x # y => c[x] # c[y]

EducationStated == job.education_required # None /\ job.education_required # ""

\* C9 as stated: min(100, 80 + 5 x excess) when the requirement is met and
\* max(0, 80 x candidate / required) when it is not, on both paths (the
\* ResumeAnalyzer path on its 0..1 scale).
C9_EducationScoreAsStated ==
    \A i \in 1..NumResumes :
        /\ (Matched(i) /\ EducationStated /\ Len(resumes[i].education) > 0) =>
              LET c == MaxResumeLevel(resumes[i].education)
                  r == RequiredLevelValue(job.education_required)
                  score == match_results[i].education_match.score
              IN /\ c >= r => score = RatMin(R(100), R(80 + 5 * (c - r)))
                 /\ (c < r /\ r > 0) => score = RatMax(R(0), Rat(80 * c, r))
        /\ (Scored(i) /\ job_req.required_education # "other"
                /\ Len(parsed_resumes[i].education) > 0) =>
              LET c == HighestLevel(parsed_resumes[i].education)
                  r == EducationLevelValue(job_req.required_education)
                  score == resume_scores[i].education_score
              IN /\ c >= r => score = RatMin(R(1), Rat(80 + 5 * (c - r), 100))
                 /\ (c < r /\ r > 0) => score = RatMax(R(0), Rat(80 * c, 100 * r))

\* C9 amended: for a resume with at least one education record and a job that
\* states an education requirement, ResumeMatcher scores 100 when the highest
\* level meets the required one and 70 x candidate / required when it falls
\* short; ResumeAnalyzer scores min(1, 0.8 + 0.05 x excess) when it is met and
\* max(0, 0.8 - 0.2 x missing levels) when it falls short.
C9_EducationScore ==
    \A i \in 1..NumResumes :
        /\ (Matched(i) /\ EducationStated /\ Len(resumes[i].education) > 0) =>
              LET c == MaxResumeLevel(resumes[i].education)
                  r == RequiredLevelValue(job.education_required)
                  score == match_results[i].education_match.score
              IN /\ c >= r => score = R(100)
                 /\ c < r => score = Rat(70 * c, r)
        /\ (Scored(i) /\ job_req.required_education # "other"
                /\ Len(parsed_resumes[i].education) > 0) =>
              LET c == HighestLevel(parsed_resumes[i].education)
                  r == EducationLevelValue(job_req.required_education)
                  score == resume_scores[i].education_score
              IN /\ c >= r => score = RatMin(R(1), Rat(80 + 5 * (c - r), 100))
                 /\ c < r => score = RatMax(R(0), Rat(80 - 20 * (r - c), 100))

\* one resume short of the requirement and one above it, scored on both paths
C9_Witness ==
    /\ EducationStated /\ job_req.required_education # "other"
    /\ \E i, k \in 1..NumResumes :
        /\ Matched(i) /\ Scored(i) /\ Matched(k) /\ Scored(k)
        /\ 0 < MaxResumeLevel(resumes[i].education)
        /\ MaxResumeLevel(resumes[i].education) < RequiredLevelValue(job.education_required)
        /\ HighestLevel(parsed_resumes[i].education)
              < EducationLevelValue(job_req.required_education)
        /\ MaxResumeLevel(resumes[k].education) > RequiredLevelValue(job.education_required)
        /\ HighestLevel(parsed_resumes[k].education)
              > EducationLevelValue(job_req.required_education)

\* C10: when the job states no skill at all, the skill score is the one
\* neutral value 80 (0.8 on the 0..1 scale) on both scoring paths.
C10_NeutralSkillScore ==
    \A i \in 1..NumResumes :
        /\ (Matched(i) /\ TotalWeight(job) = 0)
              => match_results[i].skill_match.score = R(80)
        /\ (Scored(i) /\ job_req.required_skills = {} /\ job_req.preferred_skills = {})
              => resume_scores[i].skills_score = Rat(8, 10)

\* ---- C11: match and rank report NotFound ----
Served(name) == response' # NoneRec /\ response'.request.name = name

NothingScoredOrStored == match_results' = match_results /\ match_rows' = match_rows

MatchIdAbsent ==
    \/ GetResume(response'.request.resume_id) = NoneRec
    \/ GetJobDescription(response'.request.job_id) = NoneRec

RankJobAbsent == GetJobDescription(response'.request.job_id) = NoneRec

\* C11: match reports a not-found failure when the resume id or the job id
\* is absent from storage, rank reports a not-found failure when the job id is
\* absent, which the HTTP server answers with status 404 'Job description not
\* found'; in each case nothing is scored and no match result is stored.
C11_NotFound ==
    [][/\ (Served("match_resume_to_job") /\ MatchIdAbsent) =>
            /\ response'.success = FALSE
            /\ response'.error = "Resume or job not found"
            /\ NothingScoredOrStored
       /\ (Served("find_best_candidates") /\ RankJobAbsent) =>
            /\ response'.success = FALSE
            /\ response'.error = "Job not found"
            /\ NothingScoredOrStored
       /\ (Served("match_resumes_to_job") /\ RankJobAbsent) =>
            /\ response'.status_code = Some(404)
            /\ response'.error = "Job description not found"
            /\ NothingScoredOrStored]_vars

\* ---- C12: rank skips the resumes that fail ----
ServedRank == Served("find_best_candidates") \/ Served("match_resumes_to_job")

\* the stored resumes whose matching does not fail
Matchable == {i \in 1..NumResumes : resumes[i] # NoneRec /\ i \notin failing}

ReturnedIds == {response'.matches[k].resume_id : k \in 1..Len(response'.matches)}

\* C12: rank skips every resume whose matching fails without raising to the
\* caller, and every other stored resume is scored and competes for the
\* returned list: the list holds min(limit, number of matchable resumes)
\* entries, all of them matchable resumes.
C12_RankSkipsFailures ==
    [][(ServedRank /\ ~RankJobAbsent) =>
          /\ response'.success = TRUE
          /\ \A i \in Matchable : match_results'[i] # NoneRec
          /\ ReturnedIds \subseteq Matchable
          /\ Len(response'.matches) =
                 IF response'.request.limit < Cardinality(Matchable)
                 THEN response'.request.limit ELSE Cardinality(Matchable)]_vars

\* ---- C13: the analysis entry points fail on empty text only ----
\* C13: analyze_resume and analyze_job fail when the text is empty and in no
\* other case: an empty text never yields a record, through the analyzer or
\* through its tool, and every text that is not empty yields one.
C13_FailsOnEmptyTextOnly ==
    /\ analysis # NoneRec => ~IsEmptyText(text)
    /\ job_analysis # NoneRec => job_text # ""
    /\ (response # NoneRec /\ response.request.name = "analyze_resume")
           => (response.success <=> ~IsEmptyText(text))
    /\ (response # NoneRec /\ response.request.name = "analyze_job_description")
           => (response.success <=> job_text # "")

\* ---- C14: two analyses of the same text ----
\* resume 1 and resume 2 are both the analysis of `text`
AnalysedTwice == resumes[1] # NoneRec /\ resumes[2] # NoneRec

\* a work entry without its duration
Undated(entry) ==
    [company |-> entry.company, title |-> entry.title, start_date |-> entry.start_date,
     end_date |-> entry.end_date, description |-> entry.description]

\* the fields that are read off the text alone
Timeless(resume) ==
    [skills |-> resume.skills, education |-> resume.education, summary |-> resume.summary,
     sections_found |-> resume.metadata.sections_found,
     work_experience |-> [k \in 1..Len(resume.work_experience) |->
                             Undated(resume.work_experience[k])]]

HasOpenEntry(resume) ==
    \E k \in 1..Len(resume.work_experience) : resume.work_experience[k].end_date = "Present"

Segmented == extracted_sections # NoneRec

\* the lines the segmenter loops over
Document == CleanText(text)

IsHeaderLine(line) == WordCount(line) <= 5 /\ HeaderPattern(line) # None

HeaderPositions == {k \in 1..Len(Document) : IsHeaderLine(Document[k])}

\* the lines in front of the first header; all lines if there is no header
Preamble ==
    IF HeaderPositions = {} THEN Document
    ELSE SubSeq(Document, 1, (CHOOSE k \in HeaderPositions : \A l \in HeaderPositions : k <= l) - 1)

\* C15: all lines in front of the first header are kept, in order, under
\* 'summary'; a document without any header yields the one section 'summary'
\* that holds the whole document.
C15_PreambleIsSummary ==
    (Segmented /\ Preamble # <<>>) =>
        /\ "summary" \in DOMAIN extracted_sections
        /\ extracted_sections["summary"] = Preamble
        /\ HeaderPositions = {} => DOMAIN extracted_sections = {"summary"}

\* ---- C16: a header closes the current section and opens the next ----
\* the lines between the header at position k and the next header
BodyOf(k) ==
    LET later == {l \in HeaderPositions : l > k}
        stop == IF later = {} THEN Len(Document) + 1
                ELSE CHOOSE l \in later : \A m \in later : l <= m
    IN  SubSeq(Document, k + 1, stop - 1)

\* the headers of a section name that are followed by at least one line
FilledHeaders(name) ==
    {k \in HeaderPositions : HeaderPattern(Document[k]) = name /\ BodyOf(k) # <<>>}

LastOf(positions) == CHOOSE k \in positions : \A l \in positions : l <= k

\* C16: at each header line the lines gathered since the previous header are
\* stored under the canonical name of the section they follow, and a new
\* section is opened: every section holds the lines between its (last filled)
\* header and the next header, header lines are in no content, there is a
\* 'summary' key only if lines precede the first header, and 'Experience',
\* 'foo', 'Education', 'bar' yields exactly {experience: 'foo', education: 'bar'}.
C16_HeaderClosesAndOpens ==
    Segmented =>
        /\ DOMAIN extracted_sections =
               {name \in {"experience", "education"} : FilledHeaders(name) # {}}
                  \cup (IF Preamble # <<>> THEN {"summary"} ELSE {})
        /\ \A name \in DOMAIN extracted_sections \ {"summary"} :
               extracted_sections[name] = BodyOf(LastOf(FilledHeaders(name)))
        /\ \A name \in DOMAIN extracted_sections :
               \A k \in 1..Len(extracted_sections[name]) :
                   ~IsHeaderLine(extracted_sections[name][k])
        /\ text = <<"Experience", "foo", "Education", "bar">>
              => extracted_sections = [name \in {"experience", "education"} |->
                                          IF name = "experience" THEN <<"foo">> ELSE <<"bar">>]

C16_Witness ==
    /\ Segmented
    /\ text = <<"Experience", "foo", "Education", "bar">>
    /\ DOMAIN extracted_sections = {"experience", "education"}

\* ---- C17: skills by name or by keyword ----
\* C17: the skill extractor emits a record for exactly the canonical skills
\* whose name or one of whose synonym keywords occurs in the text as a whole
\* word, whatever the case of the letters.
C17_SkillsByNameOrKeyword ==
    analysis # NoneRec =>
        analysis.skills = UNION {SkillsMentioned(text[k]) \cup KeywordsMentioned(text[k]) :
                                    k \in 1..Len(text)}

\* ---- C18: the duration of a work entry ----
\* the year a date of a record stands for; 'Present' is the year of the call
YearOf(date, resume) ==
    IF date = "Present" THEN resume.created_at.year ELSE ParsedYear(date)[1]

\* C18: a duration_months that is present is not negative and is the number
\* of months from the parsed start date to the parsed end date (2019 to 2023
\* gives 48).
C18_DurationNonNegative ==
    \A i \in 1..NumResumes :
        resumes[i] # NoneRec =>
            \A k \in 1..Len(resumes[i].work_experience) :
                LET entry == resumes[i].work_experience[k]
                IN  entry.duration_months # NoNumber =>
                        /\ entry.duration_months[1] >= 0
                        /\ entry.duration_months[1] =
                               12 * (YearOf(entry.end_date, resumes[i])
                                       - YearOf(entry.start_date, resumes[i]))
                        /\ (entry.start_date = "2019" /\ entry.end_date = "2023")
                              => entry.duration_months[1] = 48

\* ---- C19: the worker pool of a batch ----
InProgress == {i \in 1..Len(task) : task[i] = "running"}

\* C19: during a batch analysis at most 5 analyses of single resumes are in
\* progress at any moment, whatever the number of file paths.
C19_AtMostFiveInProgress == Cardinality(InProgress) <= 5

\* five analyses are in progress and a sixth task waits for a slot
C19_Witness ==
    /\ batch.pc = "gathering"
    /\ Cardinality(InProgress) = 5
    /\ \E i \in 1..Len(task) : task[i] = "pending"

\* ---- C20: storage deduplicated by content hash ----
\* the rows of the table that a save call writes to
RowsOf(name) ==
    CASE name = "save_resume" -> {resumes[i] : i \in {j \in 1..NumResumes : resumes[j] # NoneRec}}
      [] name = "save_job_description" ->
             {job_descriptions[i] : i \in {j \in JobIds : job_descriptions[j] # NoneRec}}
      [] name = "save_match_result" -> {match_rows[k].data.json : k \in 1..Len(match_rows)}
      [] OTHER -> {}

Tables == <<resumes, job_descriptions, match_rows>>

SaveCalls == {"save_resume", "save_job_description", "save_match_result"}

\* C20: a save returns an identifier; when a record of equal content is
\* stored already, the save adds no row (and returns the identifier of that
\* record), otherwise it adds the one row of the record: resumes, jobs and
\* match results alike.
C20_DeduplicatedByContent ==
    [][\A name \in SaveCalls :
          Served(name) =>
              /\ response'.success = TRUE
              /\ IF response'.request.data \in RowsOf(name)
                 THEN Tables' = Tables
                 ELSE RowsOf(name)' = RowsOf(name) \cup {response'.request.data}]_vars

\* ---- C21: the agent falls back to the rule-based analysis ----
AgentCalled == agent # NoneRec /\ ai_result # NoneRec

\* the cases the fallback is promised for: no client library, no credentials,
\* or a generative-model call that fails
NoClientLibrary == ~HAS_GOOGLE_AI

NoCredentials == ~agent.config.google_api_key /\ ~agent.config.google_cloud_project

ModelCallFails == agent.model = GenerativeModel /\ ai_result.call = "raises"

\* C21: analyze_resume_with_ai returns the rule-based analysis, without
\* raising, whenever the generative-model call fails or no credentials or no
\* client library are available.
C21_FallsBackWithoutRaising ==
    (AgentCalled /\ (NoClientLibrary \/ NoCredentials \/ ModelCallFails))
        => ai_result.outcome =
               [returned |-> FallbackAnalysis(ai_result.resume, ai_result.job_req)]

\* ---- C22: shortfall recommendations ----
\* the recommendations of the match of resume i that carry the field
RecommendationsWith(i, field) ==
    {k \in 1..Len(match_results[i].recommendations) :
        field \in DOMAIN match_results[i].recommendations[k]}

EducationUnmet(i) ==
    EducationStated /\ ~match_results[i].education_match.meets_requirements

YearsNeeded(i) ==
    10 * match_results[i].experience_match.required_years
        - match_results[i].experience_match.years_experience

\* an education recommendation naming the required level exactly when a
\* stated education requirement is unmet
EducationRecommendedWhenUnmet(i) ==
    IF EducationUnmet(i)
    THEN \E k \in RecommendationsWith(i, "consider_pursuing") :
            match_results[i].recommendations[k].consider_pursuing = job.education_required
    ELSE RecommendationsWith(i, "consider_pursuing") = {}

\* an experience recommendation stating the years still needed exactly when
\* the years of the resume are below the required years
ExperienceRecommendedWhenShort(i) ==
    IF YearsNeeded(i) > 0
    THEN \E k \in RecommendationsWith(i, "gain_more_years") :
            match_results[i].recommendations[k].gain_more_years = YearsNeeded(i)
    ELSE RecommendationsWith(i, "gain_more_years") = {}

\* C22: shortfall recommendations are produced exactly when the requirement
\* is unmet: an education recommendation naming the required level whenever
\* the job states an education requirement the resume does not meet, and an
\* experience recommendation stating the years still needed whenever the
\* years of the resume are below the required years.
C22_ShortfallRecommendations ==
    \A i \in 1..NumResumes :
        match_results[i] # NoneRec
            => EducationRecommendedWhenUnmet(i) /\ ExperienceRecommendedWhenShort(i)

\* the experience half of C22 on its own
C22_ExperienceHalf ==
    \A i \in 1..NumResumes :
        match_results[i] # NoneRec => ExperienceRecommendedWhenShort(i)

\* ---- C23: preferred skills are kept apart from the required ones ----
\* the skills a job text names only under a preferred / nice-to-have / bonus
\* / plus header, outside its requirements subsection
MentionedOnlyUnderPreferred(text_of_job) ==
    CASE text_of_job = "Requirements:\nPython\n\nNice to have:\nAWS" -> {"AWS"}
      [] text_of_job = "Requirements:\nPython and React\n\nPreferred:\nAWS\n" -> {"AWS"}
      [] OTHER -> {}

AllRequiredSkills(posting) ==
    UNION {posting.required_skills[c] : c \in DOMAIN posting.required_skills}

\* C23: a skill that a job description mentions only under a preferred /
\* nice-to-have / bonus / plus header, outside the requirements subsections,
\* is in the flat preferred list of the job and not among its required skills.
C23_PreferredOnlySkillNotRequired ==
    job_analysis # NoneRec
        => \A skill \in MentionedOnlyUnderPreferred(job_text) :
                /\ skill \in job_analysis.preferred_skills
                /\ skill \notin AllRequiredSkills(job_analysis)

\* the first half of C23 on its own: such a skill is in the preferred list
C23_PreferredListed ==
    job_analysis # NoneRec
        => \A skill \in MentionedOnlyUnderPreferred(job_text) :
                skill \in job_analysis.preferred_skills

\* ---- C24: the parsing confidence ----
Parsed == parsed # NoneRec

One(populated) == IF populated THEN 1 ELSE 0

\* the contact block holds something
ContactPopulated == parsed.contact_info.email # "" \/ parsed.contact_info.name # ""

CanonicalBlocksPopulated ==
    One(ContactPopulated) + One(parsed.education # <<>>) + One(parsed.experience # <<>>)
        + One(parsed.skills # {}) + One(parsed.summary # <<>>)

CheckedItemsPopulated ==
    One(parsed.contact_info.email # "") + One(parsed.contact_info.name # "")
        + One(parsed.education # <<>>) + One(parsed.experience # <<>>)
        + One(parsed.skills # {})

\* C24 as stated: the parsing confidence is the fraction of the five blocks
\* contact, education, experience, skills and summary that are populated.
C24_FractionOfCanonicalBlocks ==
    Parsed => parsed.parsing_confidence = Rat(CanonicalBlocksPopulated, 5)

\* C24, amended: the parsing confidence is one fifth for each of contact
\* email, contact name, education, experience and skills that is populated,
\* whether or not there is a summary; it lies between 0 and 1.
C24_FifthPerCheckedItem ==
    Parsed =>
        /\ parsed.parsing_confidence = Rat(CheckedItemsPopulated, 5)
        /\ RatLeq(R(0), parsed.parsing_confidence)
        /\ RatLeq(parsed.parsing_confidence, R(1))

\* a resume with a name and a summary and nothing else: two blocks of the
\* five, one checked item of the five
C24_Witness ==
    /\ Parsed
    /\ parsed.summary # <<>>
    /\ parsed.contact_info.name # ""
    /\ CheckedItemsPopulated = 1
    /\ parsed.parsing_confidence = Rat(1, 5)

\* ---- C25: one record per entry-start line ----
\* the lines of the experience section of the text
ExperienceSection == SectionsGet(ExtractSections(CleanText(text)), "experience")

\* the positions of the entry-start lines of the section, in document order
EntryStarts == {p \in 1..Len(ExperienceSection) : IsEntryStart(ExperienceSection[p])}

\* the k-th entry-start position
RECURSIVE NthStart(_, _)
NthStart(starts, k) ==
    LET first == CHOOSE p \in starts : \A q \in starts : p <= q
    IN IF k = 1 THEN first ELSE NthStart(starts \ {first}, k - 1)

\* the last line of the entry that starts at p: the line in front of the
\* next start line, or the last line of the section
EntryEnd(p) ==
    LET later == {q \in EntryStarts : q > p}
    IN IF later = {} THEN Len(ExperienceSection)
       ELSE (CHOOSE q \in later : \A r \in later : q <= r) - 1

\* record k of the resume is built from the k-th entry
BuiltFromEntry(records, k) ==
    LET p == NthStart(EntryStarts, k)
    IN /\ records[k].title = TitleCompany(ExperienceSection[p]).title
       /\ records[k].company = TitleCompany(ExperienceSection[p]).company
       /\ records[k].description = SubSeq(ExperienceSection, p + 1, EntryEnd(p))

OneRecordPerEntry(records) ==
    /\ Len(records) = Cardinality(EntryStarts)
    /\ \A k \in 1..Len(records) : BuiltFromEntry(records, k)

\* C25: for an experience section with at least one entry-start line, the
\* extractor returns exactly one record per entry-start line, in document
\* order, each built from its start line and the lines that follow it up to
\* the next start line or the end of the section; an entry that is its start
\* line alone still yields a record.
C25_OneRecordPerEntryStart ==
    \A i \in 1..NumResumes :
        (resumes[i] # NoneRec /\ EntryStarts # {})
            => OneRecordPerEntry(resumes[i].work_experience)

\* every entry has a line after its start line
NoBareStartLine == \A p \in EntryStarts : EntryEnd(p) > p

\* C25 for sections in which every start line is followed by a line of its own
C25_OneRecordPerFilledEntry ==
    \A i \in 1..NumResumes :
        (resumes[i] # NoneRec /\ EntryStarts # {} /\ NoBareStartLine)
            => OneRecordPerEntry(resumes[i].work_experience)

\* ---- C26: when an entry gets an end date ----
\* the lines of the entry that starts at line p of the experience section
EntryAt(p) == SubSeq(ExperienceSection, p, EntryEnd(p))

\* the date tokens that occur in the lines of an entry, one per occurrence
RECURSIVE DateTokensOf(_)
DateTokensOf(entry) ==
    IF entry = <<>> THEN <<>>
    ELSE DateOrYearTokens(Head(entry)) \o DateTokensOf(Tail(entry))

HasMarker(entry) == \E k \in 1..Len(entry) : HasPresent(entry[k])

\* record is the WorkExperience of the entry that starts at line p
RecordOfEntry(record, p) ==
    /\ record.title = TitleCompany(ExperienceSection[p]).title
    /\ record.company = TitleCompany(ExperienceSection[p]).company
    /\ record.description = Tail(EntryAt(p))

EndDateOnlyFromTwoTokensOrMarker(record, entry) ==
    /\ record.end_date # None
            => \/ Len(DateTokensOf(entry)) >= 2
               \/ Len(DateTokensOf(entry)) = 1 /\ HasMarker(entry)
    /\ (Len(DateTokensOf(entry)) = 1 /\ ~HasMarker(entry))
            => /\ record.start_date = DateTokensOf(entry)[1]
               /\ record.end_date = None
               /\ record.duration_months = NoNumber

\* C26: date extraction sets an end date, and hence a duration, only when the
\* entry text holds two date tokens or one date token and a present/current
\* marker; an entry whose only date token is a single year with no marker
\* gets a start date, no end date and an absent (not zero) duration.
C26_EndDateNeedsSecondTokenOrMarker ==
    \A i \in 1..NumResumes :
        resumes[i] # NoneRec =>
            \A k \in 1..Len(resumes[i].work_experience) : \A p \in EntryStarts :
                RecordOfEntry(resumes[i].work_experience[k], p)
                    => EndDateOnlyFromTwoTokensOrMarker(resumes[i].work_experience[k],
                                                        EntryAt(p))

\* ---- C27: a batch completes and gives back its slots ----
\* every task has held the semaphore and has left it
AllTasksDone == \A i \in 1..Len(task) : task[i] \in {"returned", "raised"}

BatchCompleted ==
    /\ batch.pc = "returned"
    /\ AllTasksDone
    /\ permits = SemaphoreSlots

\* C27: if every single-resume analysis eventually returns or raises, a batch
\* over any number of paths eventually completes: every task gets the
\* semaphore, the slot is given back after each task whether it succeeded or
\* failed, and all 5 slots are free when the batch returns.
C27_BatchEventuallyCompletes == (batch.pc = "called") ~> BatchCompleted

\* a batch of more tasks than slots, some failed and some not, has returned
\* with every slot free
C27_Witness ==
    /\ BatchCompleted
    /\ Len(task) > SemaphoreSlots
    /\ \E i, j \in 1..Len(task) : task[i] = "raised" /\ task[j] = "returned"

\* ---- C28: two overlapping save_resume calls for identical content ----
CallsFinished == \A c \in Callers : save_calls[c].pc \in {"returned", "raised"}

IdenticalContent == save_calls[1].resume_data = save_calls[2].resume_data

RowsOfContent(resume_data) == {i \in 1..NumResumes : resumes[i] = resume_data}

\* C28: when two save_resume calls for identical content run side by side,
\* neither call raises, both return the same identifier, and exactly one row
\* of that content is stored.
C28_ConcurrentSavesAgree ==
    (CallsFinished /\ IdenticalContent) =>
        /\ \A c \in Callers : save_calls[c].pc = "returned"
        /\ save_calls[1].id = save_calls[2].id
        /\ Cardinality(RowsOfContent(save_calls[1].resume_data)) = 1

\* what the two callers get: save_resume raises at the content hash, before
\* the lookup, and stores nothing
C28_BothCallsRaise ==
    \A c \in Callers :
        save_calls[c].pc \in {"idle", "called"}
            \/ (/\ save_calls[c].pc = "raised"
                /\ save_calls[c].error = "TypeError"
                /\ RowsOfContent(save_calls[c].resume_data) = {})

\* ---- C29: delete_resume and what it leaves alone ----
Deleted(resume_id) ==
    /\ response' # NoneRec
    /\ response'.request = [name |-> "delete_resume", resume_id |-> resume_id]

RowsIn(rows) == {rows[k] : k \in 1..Len(rows)}

\* C29: delete_resume(id) removes the resume of that id and every match
\* result whose resume_id is id, leaves every other resume, every job and
\* every other match result as it was, and returns true exactly when a resume
\* of that id was stored before the call.
C29_DeleteResumeAndItsMatches ==
    [][\A resume_id \in ResumeIds :
          Deleted(resume_id) =>
              /\ GetResume(resume_id)' = NoneRec
              /\ \A id \in DOMAIN resumes : id # resume_id => resumes'[id] = resumes[id]
              /\ RowsIn(match_rows') = {row \in RowsIn(match_rows) : row.resume_id # resume_id}
              /\ Len(match_rows') = Cardinality(RowsIn(match_rows'))
              /\ job_descriptions' = job_descriptions
              /\ response'.returned = (GetResume(resume_id) # NoneRec)]_vars

\* a stored resume was deleted, and another resume and a match result of it
\* are still stored
C29_Witness ==
    /\ response # NoneRec
    /\ response.request.name = "delete_resume"
    /\ response.returned
    /\ GetResume(response.request.resume_id) = NoneRec
    /\ \E k \in 1..Len(match_rows) : GetResume(match_rows[k].resume_id) # NoneRec

\* ---- C30: no content is lost after the first header ----
\* the nearest header in front of position k; 0 if there is none
NearestHeader(k) ==
    LET before == {h \in HeaderPositions : h < k}
    IN  IF before = {} THEN 0 ELSE LastOf(before)

\* position k holds a line that is no header and follows a header of the name
FollowsHeaderOf(name, k) ==
    /\ ~IsHeaderLine(Document[k])
    /\ NearestHeader(k) # 0
    /\ HeaderPattern(Document[NearestHeader(k)]) = name

\* the lines among the first k that follow a header of the name, in order
RECURSIVE ContentUnder(_, _)
ContentUnder(name, k) ==
    IF k = 0 THEN <<>>
    ELSE ContentUnder(name, k - 1) \o (IF FollowsHeaderOf(name, k) THEN <<Document[k]>> ELSE <<>>)

HeaderNames == {"experience", "education"}

\* C30: every line that is no header and follows a header is in exactly one
\* section of the output, the one named by the nearest header in front of it,
\* also when the same canonical header occurs more than once.
C30_NoContentLostAfterFirstHeader ==
    Segmented =>
        \A name \in HeaderNames :
            SectionsGet(extracted_sections, name) = ContentUnder(name, Len(Document))

\* what holds: the lines are kept when no section name has two headers that
\* are each followed by lines
C30_KeptWithoutRepeatedSection ==
    (Segmented /\ \A name \in HeaderNames : Cardinality(FilledHeaders(name)) <= 1) =>
        \A name \in HeaderNames :
            SectionsGet(extracted_sections, name) = ContentUnder(name, Len(Document))

====
